---- MODULE Spec2Model ----
(***************************************************************************)
(* Model of the layout and connection-routing engine of the UML class      *)
(* diagram generator: src/src/diagramDraw.py (text metrics, class boxes,   *)
(* connector glyphs, generalization trees), src/src/connection.py          *)
(* (connection points) and the renderers of src/src/app.py and             *)
(* src/api/index.py (connection grouping).                                 *)
(***************************************************************************)
EXTENDS Integers, Sequences, FiniteSets, TLC

VARIABLES
    font,       \* the font handed to the text-metric functions
    text,       \* the text last measured by calculateBoxWidth/Height
    tw,         \* calculateBoxWidth(text, font)
    th,         \* calculateBoxHeight(text, font)
    class_data, \* the name, attributes and operations texts handed to mergeBoxes
    box,        \* the result of mergeBoxes
    query,      \* the box rectangle and target handed to _get_best_connection_point
    point,      \* the ConnectionPoint it returned
    conn,       \* the end points and relationship type handed to drawConnection
    canvas,     \* the image drawn on: the sequence of draw commands issued so far
    classes_data,     \* the class list the caller hands to the renderer
    styling_options,  \* the styling options the caller hands to the renderer
    class_positions,  \* class id -> <<x, y>> of the last render
    class_boxes,      \* class id -> <<width, height>> of the last render
    _existing_notes,  \* diagramDraw._existing_notes, the module-level note list
    note_call,  \* the arguments handed to note()
    note_rect,  \* the rectangle note() returned
    threads,    \* the renders in progress, one per request thread
    manager,    \* a ConnectionManager: its class_positions and connections
    returned,   \* what the last ConnectionManager call returned
    pc          \* position of the caller

vars == <<font, text, tw, th, class_data, box, query, point, conn, canvas,
          classes_data, styling_options, class_positions, class_boxes,
          _existing_notes, note_call, note_rect, threads, manager, returned, pc>>

----------------------------------------------------------------------------
(* Bounds *)

MaxLen == 2          \* longest name / attributes / operations text, in glyphs
MaxOffset == 100     \* largest distance of a target from a box centre, per axis
MaxClasses == 3      \* most classes in one diagram
MaxConns == 3        \* most connections in one diagram (grouping)
MaxGeoConns == 2     \* most connections in one diagram (geometry)
MaxPerClass == 2     \* most connections listed by one class
MaxNotes == 2        \* most notes in one diagram
MaxStored == 2       \* most connections stored in a ConnectionManager

----------------------------------------------------------------------------
(* Helpers *)

Max2(a, b) == IF a >= b THEN a ELSE b
Min2(a, b) == IF a <= b THEN a ELSE b
Abs(a) == IF a < 0 THEN 0 - a ELSE a

RECURSIVE SeqSum(_)
SeqSum(s) == IF s = <<>> THEN 0 ELSE Head(s) + SeqSum(Tail(s))

RECURSIVE SeqMax(_)
SeqMax(s) == IF Len(s) = 1 THEN Head(s) ELSE Max2(Head(s), SeqMax(Tail(s)))

RECURSIVE SeqMin(_)
SeqMin(s) == IF Len(s) = 1 THEN Head(s) ELSE Min2(Head(s), SeqMin(Tail(s)))

----------------------------------------------------------------------------
(* Text and fonts.  A text is a sequence of glyphs; NL is the line break.  *)

NL == "\n"
Glyphs == {"a", "W"}
Chars == Glyphs \cup {NL}

RECURSIVE StringsOfLen(_)
StringsOfLen(n) ==
    IF n = 0 THEN {<<>>}
    ELSE {Append(s, c) : s \in StringsOfLen(n - 1), c \in Chars}

Strings == UNION {StringsOfLen(n) : n \in 0..MaxLen}

\* str.split('\n'): always at least one (possibly empty) line
RECURSIVE Split(_)
Split(s) ==
    IF s = <<>> THEN << <<>> >>
    ELSE LET rest == Split(Tail(s))
         IN  IF Head(s) = NL THEN << <<>> >> \o rest
             ELSE << <<Head(s)>> \o Head(rest) >> \o Tail(rest)

\* A font gives each glyph an advance width and an ink height; emptyH is the
\* bbox height of the empty string (0 for a FreeType font, the fixed line
\* height for a bitmap font such as the load_default() fallback).
TrueTypeFont == [w |-> [c \in Glyphs |-> IF c = "a" THEN 7 ELSE 115],
                 h |-> [c \in Glyphs |-> IF c = "a" THEN 7 ELSE 9],
                 emptyH |-> 0]
BitmapFont   == [w |-> [c \in Glyphs |-> IF c = "a" THEN 6 ELSE 130],
                 h |-> [c \in Glyphs |-> 11],
                 emptyH |-> 11]
Fonts == {TrueTypeFont, BitmapFont}

\* font.getbbox(line)[2] - font.getbbox(line)[0]
LineWidth(line, f) == SeqSum([i \in 1..Len(line) |-> f.w[line[i]]])

\* font.getbbox(line)[3] - font.getbbox(line)[1]
LineHeight(line, f) ==
    IF line = <<>> THEN f.emptyH
    ELSE SeqMax([i \in 1..Len(line) |-> f.h[line[i]]])

----------------------------------------------------------------------------
(* diagramDraw.py: text metrics *)

PADDING_X == 10
PADDING_Y == 5
MAX_BOX_WIDTH == 250
EMPTY_SECTION_HEIGHT == 20

WidestLine(t, f) ==
    LET lines == Split(t)
    IN  SeqMax([i \in 1..Len(lines) |-> LineWidth(lines[i], f)])

SumLineHeights(t, f) ==
    LET lines == Split(t)
    IN  SeqSum([i \in 1..Len(lines) |-> LineHeight(lines[i], f)])

calculateBoxWidthUncapped(t, f) == WidestLine(t, f) + (PADDING_X * 2)

calculateBoxWidth(t, f) ==
    LET max_width == WidestLine(t, f)
        calculated_width == max_width + (PADDING_X * 2)
    IN  Min2(calculated_width, MAX_BOX_WIDTH)

calculateBoxHeight(t, f) ==
    LET total_height == SumLineHeights(t, f)
    IN  total_height + (PADDING_Y * 2)

----------------------------------------------------------------------------
(* diagramDraw.py: mergeBoxes.  The image is its size plus the separator   *)
(* lines drawn on it (each as <<x0, y0, x1, y1>>) and the outer border.    *)

mergeBoxesNoMinimum(name, attributes, operations, f) ==
    LET name_width  == calculateBoxWidth(name, f)
        name_height == calculateBoxHeight(name, f)
        attr_width  == IF attributes # <<>> THEN calculateBoxWidth(attributes, f) ELSE name_width
        attr_height == IF attributes # <<>> THEN calculateBoxHeight(attributes, f) ELSE 0
        ops_width   == IF operations # <<>> THEN calculateBoxWidth(operations, f) ELSE name_width
        ops_height  == IF operations # <<>> THEN calculateBoxHeight(operations, f) ELSE 0
        max_width   == Max2(name_width, Max2(attr_width, ops_width))
        total_height == name_height + attr_height + ops_height
    IN  [name_height |-> name_height, attr_height |-> attr_height,
         ops_height |-> ops_height,
         width |-> max_width, height |-> total_height,
         border |-> <<0, 0, max_width - 1, total_height - 1>>,
         lines |-> << <<0, name_height, max_width, name_height>>,
                      <<0, name_height + attr_height, max_width, name_height + attr_height>> >>]

mergeBoxesSkipEmptySeparator(name, attributes, operations, f) ==
    LET b == mergeBoxesNoMinimum(name, attributes, operations, f)
        name_height == calculateBoxHeight(name, f)
        attr_height == IF attributes # <<>> THEN calculateBoxHeight(attributes, f)
                       ELSE EMPTY_SECTION_HEIGHT
        ops_height  == IF operations # <<>> THEN calculateBoxHeight(operations, f)
                       ELSE EMPTY_SECTION_HEIGHT
        total_height == name_height + attr_height + ops_height
        sep1 == <<0, name_height, b.width, name_height>>
        sep2 == <<0, name_height + attr_height, b.width, name_height + attr_height>>
    IN  [b EXCEPT !.attr_height = attr_height, !.ops_height = ops_height,
                  !.height = total_height,
                  !.border = <<0, 0, b.width - 1, total_height - 1>>,
                  !.lines = IF attributes # <<>> THEN <<sep1, sep2>> ELSE <<sep1>>]

mergeBoxes(name, attributes, operations, f) ==
    LET name_width  == calculateBoxWidth(name, f)
        name_height == calculateBoxHeight(name, f)
        attr_width  == IF attributes # <<>> THEN calculateBoxWidth(attributes, f) ELSE name_width
        attr_height == IF attributes # <<>> THEN calculateBoxHeight(attributes, f)
                       ELSE EMPTY_SECTION_HEIGHT
        ops_width   == IF operations # <<>> THEN calculateBoxWidth(operations, f) ELSE name_width
        ops_height  == IF operations # <<>> THEN calculateBoxHeight(operations, f)
                       ELSE EMPTY_SECTION_HEIGHT
        max_width   == Max2(name_width, Max2(attr_width, ops_width))
        total_height == name_height + attr_height + ops_height
        name_section_bottom == name_height
        attr_section_bottom == name_height + attr_height
    IN  [name_height |-> name_height, attr_height |-> attr_height,
         ops_height |-> ops_height,
         width |-> max_width, height |-> total_height,
         border |-> <<0, 0, max_width - 1, total_height - 1>>,
         lines |-> << <<0, name_section_bottom, max_width, name_section_bottom>>,
                      <<0, attr_section_bottom, max_width, attr_section_bottom>> >>]

NoClass == [name |-> <<>>, attributes |-> <<>>, operations |-> <<>>]

NoBox == [name_height |-> 0, attr_height |-> 0, ops_height |-> 0,
          width |-> 0, height |-> 0, border |-> <<0, 0, 0, 0>>, lines |-> <<>>]

----------------------------------------------------------------------------
(* connection.py: ConnectionManager._get_best_connection_point.  A class   *)
(* position is <<x, y, w, h>>; a ConnectionPoint is [x, y, side].          *)

ARROW_OFFSET == 15

ConnectionPoint(x, y, side) == [x |-> x, y |-> y, side |-> side]

_get_best_connection_point_tie_horizontal(class_pos, target_x, target_y) ==
    LET x == class_pos[1]
        y == class_pos[2]
        w == class_pos[3]
        h == class_pos[4]
        center_x == x + (w \div 2)
        center_y == y + (h \div 2)
        dx == target_x - center_x
        dy == target_y - center_y
    IN  IF Abs(dx) >= Abs(dy)
        THEN IF dx > 0 THEN ConnectionPoint(x + w + ARROW_OFFSET, center_y, "right")
             ELSE ConnectionPoint(x - ARROW_OFFSET, center_y, "left")
        ELSE IF dy > 0 THEN ConnectionPoint(center_x, y + h + ARROW_OFFSET, "bottom")
             ELSE ConnectionPoint(center_x, y - ARROW_OFFSET, "top")

_get_best_connection_point(class_pos, target_x, target_y) ==
    LET x == class_pos[1]
        y == class_pos[2]
        w == class_pos[3]
        h == class_pos[4]
        center_x == x + (w \div 2)
        center_y == y + (h \div 2)
        dx == target_x - center_x
        dy == target_y - center_y
        arrow_offset == ARROW_OFFSET
    IN  IF Abs(dx) > Abs(dy)
        THEN IF dx > 0 THEN ConnectionPoint(x + w + arrow_offset, center_y, "right")
             ELSE ConnectionPoint(x - arrow_offset, center_y, "left")
        ELSE IF dy > 0 THEN ConnectionPoint(center_x, y + h + arrow_offset, "bottom")
             ELSE ConnectionPoint(center_x, y - arrow_offset, "top")

NoQuery == [class_pos |-> <<0, 0, 0, 0>>, target_x |-> 0, target_y |-> 0]
NoPoint == ConnectionPoint(0, 0, "none")

\* connection.py: ConnectionManager.  class_positions maps a class name to
\* <<x, y, w, h>>; a UMLConnection is [id, from_class, to_class, start_point,
\* end_point], with NoPoint for a point that is None.
NoManager == [class_positions |-> <<>>, connections |-> <<>>]

UMLConnection(id, from_class, to_class) ==
    [id |-> id, from_class |-> from_class, to_class |-> to_class,
     start_point |-> NoPoint, end_point |-> NoPoint]

add_class_position(m, class_name, x, y, width, height) ==
    [m EXCEPT !.class_positions =
        [n \in DOMAIN m.class_positions \cup {class_name} |->
            IF n = class_name THEN <<x, y, width, height>> ELSE m.class_positions[n]]]

_calculate_connection_points_same_target(m, from_class, to_class) ==
    LET from_pos == m.class_positions[from_class]
        to_pos == m.class_positions[to_class]
        to_center_x == to_pos[1] + (to_pos[3] \div 2)
        to_center_y == to_pos[2] + (to_pos[4] \div 2)
    IN  <<_get_best_connection_point(from_pos, to_center_x, to_center_y),
          _get_best_connection_point(to_pos, to_center_x, to_center_y)>>
_calculate_connection_points(m, from_class, to_class) ==
    LET from_pos == m.class_positions[from_class]
        to_pos == m.class_positions[to_class]
        from_center_x == from_pos[1] + (from_pos[3] \div 2)
        from_center_y == from_pos[2] + (from_pos[4] \div 2)
        to_center_x == to_pos[1] + (to_pos[3] \div 2)
        to_center_y == to_pos[2] + (to_pos[4] \div 2)
    IN  <<_get_best_connection_point(from_pos, to_center_x, to_center_y),
          _get_best_connection_point(to_pos, from_center_x, from_center_y)>>

\* add_connection: the manager it leaves and the value it returns
add_connection_no_points(m, connection) ==
    IF connection.from_class \notin DOMAIN m.class_positions
    THEN [manager |-> m, returned |-> "False"]
    ELSE IF connection.to_class \notin DOMAIN m.class_positions
    THEN [manager |-> m, returned |-> "False"]
    ELSE [manager |-> [m EXCEPT !.connections = Append(@, connection)],
          returned |-> "True"]
add_connection(m, connection) ==
    IF connection.from_class \notin DOMAIN m.class_positions
    THEN [manager |-> m, returned |-> "False"]
    ELSE IF connection.to_class \notin DOMAIN m.class_positions
    THEN [manager |-> m, returned |-> "False"]
    ELSE LET points == _calculate_connection_points(m, connection.from_class,
                                                    connection.to_class)
         IN  [manager |-> [m EXCEPT !.connections =
                              Append(@, [connection EXCEPT !.start_point = points[1],
                                                           !.end_point = points[2]])],
              returned |-> "True"]

remove_connection(m, connection_id) ==
    [m EXCEPT !.connections = SelectSeq(@, LAMBDA c : c.id # connection_id)]

----------------------------------------------------------------------------
(* diagramDraw.py: drawConnection and its glyphs.  A draw command is a     *)
(* line (style solid or dashed, from start to end) or a polygon glyph      *)
(* (kind arrow, diamond or triangle) with its tip at "to", extending back  *)
(* "reach" pixels toward "from", filled white or with the line colour.     *)
(* "part" names the draw call that issued the command and "owner" the      *)
(* connection or tree the renderer issued it for.                          *)

ARROW_LENGTH == 10
DIAMOND_LENGTH == 12
TRIANGLE_LENGTH == 12

NoOwner == [source |-> <<>>, target |-> <<>>, relationship |-> "none"]

LineCmd(style, x1, y1, x2, y2) ==
    [kind |-> "line", style |-> style, from |-> <<x1, y1>>, to |-> <<x2, y2>>,
     fill |-> "none", reach |-> 0, part |-> "connector", owner |-> NoOwner]

GlyphCmd(kind, fill, reach, tip_x, tip_y, from_x, from_y) ==
    [kind |-> kind, style |-> "polygon", from |-> <<from_x, from_y>>,
     to |-> <<tip_x, tip_y>>, fill |-> fill, reach |-> reach,
     part |-> "connector", owner |-> NoOwner]

\* a pasted class box or a note rectangle: from = top-left, to = bottom-right
RectCmd(kind, x, y, w, h) ==
    [kind |-> kind, style |-> "rect", from |-> <<x, y>>, to |-> <<x + w, y + h>>,
     fill |-> "none", reach |-> 0, part |-> kind, owner |-> NoOwner]

Owned(cmds, part, owner) ==
    [i \in 1..Len(cmds) |-> [cmds[i] EXCEPT !.part = part, !.owner = owner]]

\* length == 0 for integer end points
ZeroLength(x1, y1, x2, y2) == x1 = x2 /\ y1 = y2

draw_dashed_line(x1, y1, x2, y2) ==
    IF ZeroLength(x1, y1, x2, y2) THEN <<>>
    ELSE <<LineCmd("dashed", x1, y1, x2, y2)>>

draw_arrow_head(start_x, start_y, end_x, end_y) ==
    IF ZeroLength(start_x, start_y, end_x, end_y) THEN <<>>
    ELSE <<GlyphCmd("arrow", "line_color", ARROW_LENGTH, end_x, end_y, start_x, start_y)>>

\* the far vertex lies diamond_length + diamond_length/2 behind the tip
draw_diamond(end_x, end_y, start_x, start_y, filled) ==
    IF ZeroLength(start_x, start_y, end_x, end_y) THEN <<>>
    ELSE <<GlyphCmd("diamond", IF filled THEN "line_color" ELSE "white",
                    DIAMOND_LENGTH + (DIAMOND_LENGTH \div 2),
                    end_x, end_y, start_x, start_y)>>

draw_triangle(start_x, start_y, end_x, end_y, filled) ==
    IF ZeroLength(start_x, start_y, end_x, end_y) THEN <<>>
    ELSE <<GlyphCmd("triangle", IF filled THEN "line_color" ELSE "white",
                    TRIANGLE_LENGTH, end_x, end_y, start_x, start_y)>>

drawConnectionGlyphAtStart(start_x, start_y, end_x, end_y, connection_type) ==
    (IF connection_type \in {"realization", "dependency"}
     THEN draw_dashed_line(start_x, start_y, end_x, end_y)
     ELSE <<LineCmd("solid", start_x, start_y, end_x, end_y)>>)
    \o
    (CASE connection_type = "association" -> draw_arrow_head(start_x, start_y, end_x, end_y)
       [] connection_type = "aggregation" -> draw_diamond(start_x, start_y, end_x, end_y, FALSE)
       [] connection_type = "composition" -> draw_diamond(start_x, start_y, end_x, end_y, TRUE)
       [] connection_type = "inheritance" -> draw_triangle(start_x, start_y, end_x, end_y, FALSE)
       [] connection_type = "realization" -> draw_triangle(start_x, start_y, end_x, end_y, FALSE)
       [] connection_type = "dependency" -> draw_arrow_head(start_x, start_y, end_x, end_y)
       [] OTHER -> <<>>)

drawConnection(start_x, start_y, end_x, end_y, connection_type) ==
    (IF connection_type \in {"realization", "dependency"}
     THEN draw_dashed_line(start_x, start_y, end_x, end_y)
     ELSE <<LineCmd("solid", start_x, start_y, end_x, end_y)>>)
    \o
    (CASE connection_type = "association" -> draw_arrow_head(start_x, start_y, end_x, end_y)
       [] connection_type = "aggregation" -> draw_diamond(end_x, end_y, start_x, start_y, FALSE)
       [] connection_type = "composition" -> draw_diamond(end_x, end_y, start_x, start_y, TRUE)
       [] connection_type = "inheritance" -> draw_triangle(start_x, start_y, end_x, end_y, FALSE)
       [] connection_type = "inheritance_line" -> <<>>
       [] connection_type = "realization" -> draw_triangle(start_x, start_y, end_x, end_y, FALSE)
       [] connection_type = "dependency" -> draw_arrow_head(start_x, start_y, end_x, end_y)
       [] OTHER -> <<>>)

NoConn == [start |-> <<0, 0>>, end |-> <<0, 0>>, connection_type |-> "none"]

----------------------------------------------------------------------------
(* diagramDraw.py: the merged generalization tree *)

GEN_TRIANGLE_SIZE == 12

\* tip at (x, y), base GEN_TRIANGLE_SIZE below it
draw_fixed_generalization_triangle(x, y) ==
    <<[GlyphCmd("triangle", "white", GEN_TRIANGLE_SIZE, x, y, x, y + GEN_TRIANGLE_SIZE)
          EXCEPT !.part = "triangle"]>>

draw_proper_generalization(parent_pos, children_positions) ==
    IF children_positions = <<>> THEN <<>>
    ELSE
    LET parent_x == parent_pos[1]
        parent_y == parent_pos[2]
        n == Len(children_positions)
        children_y_positions == [i \in 1..n |-> children_positions[i][2]]
        min_child_y == SeqMin(children_y_positions)
        horizontal_y == parent_y + ((min_child_y - parent_y) \div 2)
        children_x_positions == [i \in 1..n |-> children_positions[i][1]]
        leftmost_x == SeqMin(children_x_positions)
        rightmost_x == SeqMax(children_x_positions)
        triangle_bottom_y == parent_y + GEN_TRIANGLE_SIZE
    IN  <<[LineCmd("solid", parent_x, triangle_bottom_y, parent_x, horizontal_y)
              EXCEPT !.part = "trunk"]>>
        \o (IF n > 1
            THEN <<[LineCmd("solid", leftmost_x, horizontal_y, rightmost_x, horizontal_y)
                       EXCEPT !.part = "bar"]>>
            ELSE <<>>)
        \o [i \in 1..n |->
               IF n = 1
               THEN [LineCmd("solid", parent_x, triangle_bottom_y,
                             children_positions[i][1], children_positions[i][2])
                        EXCEPT !.part = "branch"]
               ELSE [LineCmd("solid", children_positions[i][1], horizontal_y,
                             children_positions[i][1], children_positions[i][2])
                        EXCEPT !.part = "branch"]]
        \o draw_fixed_generalization_triangle(parent_x, parent_y)

----------------------------------------------------------------------------
(* diagramDraw.py: notes.  _existing_notes holds <<x, y, w, h>> rectangles. *)

\* clear_notes(): the list it leaves in _existing_notes
clear_notes_skipped == _existing_notes
clear_notes == <<>>

NOTE_PADDING == 8
NOTE_FONT_SIZE == 10
NOTE_OFFSET == 20
JitterOffsets == <<0, 20, -20, 40, -40>>

\* note dimensions: blank lines measure 0 wide and font_size high
NoteSize(note_text, f, font_size) ==
    LET note_lines == Split(note_text)
        n == Len(note_lines)
        max_line_width == SeqMax(<<0>> \o [i \in 1..n |->
                              IF note_lines[i] # <<>> THEN LineWidth(note_lines[i], f) ELSE 0])
        total_height == SeqSum([i \in 1..n |->
                              IF note_lines[i] # <<>> THEN LineHeight(note_lines[i], f)
                              ELSE font_size])
    IN  <<max_line_width + (NOTE_PADDING * 2), total_height + (NOTE_PADDING * 2)>>

RectsOverlap(x, y, width, height, existing) ==
    /\ x < existing[1] + existing[3]
    /\ x + width > existing[1]
    /\ y < existing[2] + existing[4]
    /\ y + height > existing[2]

check_collision_off(existing_notes, x, y, width, height, avoid_collisions) == FALSE
check_collision(existing_notes, x, y, width, height, avoid_collisions) ==
    IF ~avoid_collisions THEN FALSE
    ELSE \E i \in 1..Len(existing_notes) :
            RectsOverlap(x, y, width, height, existing_notes[i])

\* positions_to_try: the requested side first, duplicates removed
PositionsToTryRequestedOnly(note_position) ==
    IF note_position = "auto" THEN <<"right">> ELSE <<note_position>>
PositionsToTry(note_position) ==
    IF note_position = "auto" THEN <<"right", "left", "bottom", "top">>
    ELSE <<note_position>> \o
         SelectSeq(<<"right", "left", "bottom", "top">>, LAMBDA p : p # note_position)

SidePosition(pos, class_position, class_size, note_size, offset) ==
    LET class_x == class_position[1]
        class_y == class_position[2]
        class_width == class_size[1]
        class_height == class_size[2]
        note_width == note_size[1]
        note_height == note_size[2]
    IN  CASE pos = "right" -> <<class_x + class_width + offset,
                               class_y + ((class_height - note_height) \div 2)>>
          [] pos = "left" -> <<class_x - offset - note_width,
                              class_y + ((class_height - note_height) \div 2)>>
          [] pos = "top" -> <<class_x + ((class_width - note_width) \div 2),
                             class_y - offset - note_height>>
          [] pos = "bottom" -> <<class_x + ((class_width - note_width) \div 2),
                                class_y + class_height + offset>>

\* the first jitter offset, from index j on, that stays inside the image
\* vertically and collides with nothing; 0 if there is none
RECURSIVE FirstJitter(_, _, _, _, _, _, _)
FirstJitter(j, existing_notes, test_x, test_y, note_size, image_height, avoid_collisions) ==
    IF j > Len(JitterOffsets) THEN 0
    ELSE LET adjusted_y == test_y + JitterOffsets[j]
         IN  IF /\ adjusted_y >= 0
                /\ adjusted_y + note_size[2] <= image_height
                /\ ~check_collision(existing_notes, test_x, adjusted_y,
                                    note_size[1], note_size[2], avoid_collisions)
             THEN j
             ELSE FirstJitter(j + 1, existing_notes, test_x, test_y, note_size,
                              image_height, avoid_collisions)

RECURSIVE find_best_position(_, _, _, _, _, _, _, _, _)
find_best_position(positions_to_try, existing_notes, class_position, class_size, note_size, offset, image_width, image_height, avoid_collisions) ==
    IF positions_to_try = <<>>
    THEN LET d == SidePosition("right", class_position, class_size, note_size, offset)
         IN  <<d[1], d[2], "right">>
    ELSE
    LET pos == Head(positions_to_try)
        rest == find_best_position(Tail(positions_to_try), existing_notes, class_position,
                                   class_size, note_size, offset, image_width,
                                   image_height, avoid_collisions)
    IN  IF pos \notin {"right", "left", "top", "bottom"} THEN rest
        ELSE
        LET t == SidePosition(pos, class_position, class_size, note_size, offset)
            test_x == t[1]
            test_y == t[2]
            j == FirstJitter(1, existing_notes, test_x, test_y, note_size,
                             image_height, avoid_collisions)
        IN  IF /\ test_x >= 0 /\ test_y >= 0
               /\ test_x + note_size[1] <= image_width
               /\ test_y + note_size[2] <= image_height
            THEN IF ~check_collision(existing_notes, test_x, test_y,
                                     note_size[1], note_size[2], avoid_collisions)
                 THEN <<test_x, test_y, pos>>
                 ELSE IF j # 0 THEN <<test_x, test_y + JitterOffsets[j], pos>>
                 ELSE rest
            ELSE rest

draw_note_connection(class_pos, class_size, note_pos, note_size, position) ==
    LET class_x == class_pos[1]
        class_y == class_pos[2]
        class_width == class_size[1]
        class_height == class_size[2]
        note_x == note_pos[1]
        note_y == note_pos[2]
        note_width == note_size[1]
        note_height == note_size[2]
        link(x1, y1, x2, y2) == Owned(draw_dashed_line(x1, y1, x2, y2), "note_link", NoOwner)
    IN  CASE position = "right" ->
               link(class_x + class_width, class_y + (class_height \div 2),
                    note_x, note_y + (note_height \div 2))
          [] position = "left" ->
               link(class_x, class_y + (class_height \div 2),
                    note_x + note_width, note_y + (note_height \div 2))
          [] position = "top" ->
               link(class_x + (class_width \div 2), class_y,
                    note_x + (note_width \div 2), note_y + note_height)
          [] position = "bottom" ->
               link(class_x + (class_width \div 2), class_y + class_height,
                    note_x + (note_width \div 2), note_y)
          [] OTHER -> <<>>

\* note(): the rectangle returned, the new _existing_notes and the commands drawn
note(existing_notes, image_width, image_height, note_text, class_position, class_size, f, note_position, offset, avoid_collisions) ==
    LET note_size == NoteSize(note_text, f, NOTE_FONT_SIZE)
        best == find_best_position(PositionsToTry(note_position), existing_notes,
                                   class_position, class_size, note_size, offset,
                                   image_width, image_height, avoid_collisions)
        rect == <<best[1], best[2], note_size[1], note_size[2]>>
    IN  [rect |-> rect,
         existing_notes |-> IF avoid_collisions THEN Append(existing_notes, rect)
                            ELSE existing_notes,
         cmds |-> <<RectCmd("note", best[1], best[2], note_size[1], note_size[2])>>
                  \o draw_note_connection(class_position, class_size,
                                          <<best[1], best[2]>>, note_size, best[3])]

----------------------------------------------------------------------------
(* app.py / api/index.py: the renderers.  classes_data is a sequence of     *)
(* [id, name, attributes, operations, notes, connections]; a connection is *)
(* [targetClass, relationship]; an absent targetClass is the empty text.   *)

FULL_START_X == 80
FULL_START_Y == 80
FULL_ROW_HEIGHT == 350
FULL_DEFAULT_WIDTH == 1200
FULL_DEFAULT_HEIGHT == 800
SIMPLE_DEFAULT_WIDTH == 1400
SIMPLE_DEFAULT_HEIGHT == 1000
SIMPLE_SPACING == 60
SIMPLE_MIN_START_Y == 40
SIMPLE_MARGIN == 20

\* create_class_box: the size of the box image of one class
create_class_box(cls, f) ==
    LET b == mergeBoxes(cls.name, cls.attributes, cls.operations, f)
    IN  <<b.width, b.height>>

\* class_name_to_info: name -> <<x, y, w, h>>, for the classes that have a
\* position and a box (a later class of the same name replaces an earlier one)
ClassNamesPlaced(classes, positions, boxes) ==
    {classes[i].name : i \in {k \in 1..Len(classes) :
                                 classes[k].id \in DOMAIN positions /\ classes[k].id \in DOMAIN boxes}}

class_name_to_info(classes, positions, boxes) ==
    [nm \in ClassNamesPlaced(classes, positions, boxes) |->
        LET idxs == {k \in 1..Len(classes) :
                        /\ classes[k].name = nm
                        /\ classes[k].id \in DOMAIN positions
                        /\ classes[k].id \in DOMAIN boxes}
            last == CHOOSE k \in idxs : \A m \in idxs : m <= k
            id == classes[last].id
        IN  <<positions[id][1], positions[id][2], boxes[id][1], boxes[id][2]>>]

RECURSIVE KeptConnectionsBreak(_, _)
KeptConnectionsBreak(classes, info) ==
    IF classes = <<>> THEN <<>>
    ELSE LET cls == Head(classes)
             conns == cls.connections
             bad == {k \in 1..Len(conns) : conns[k].targetClass = <<>>
                                           \/ conns[k].targetClass \notin DOMAIN info}
             firstBad == IF bad = {} THEN Len(conns) + 1
                         ELSE CHOOSE k \in bad : \A m \in bad : k <= m
             kept == SubSeq(conns, 1, firstBad - 1)
             mine == IF cls.name \notin DOMAIN info THEN <<>>
                     ELSE [i \in 1..Len(kept) |->
                              [source |-> cls.name, target |-> kept[i].targetClass,
                               relationship |-> kept[i].relationship]]
         IN  mine \o KeptConnectionsBreak(Tail(classes), info)

\* the connections kept by the collecting loop, in iteration order, as
\* [source, target, relationship]
RECURSIVE KeptConnections(_, _)
KeptConnections(classes, info) ==
    IF classes = <<>> THEN <<>>
    ELSE LET cls == Head(classes)
             conns == cls.connections
             kept == SelectSeq(conns, LAMBDA c : c.targetClass # <<>>
                                               /\ c.targetClass \in DOMAIN info)
             mine == IF cls.name \notin DOMAIN info THEN <<>>
                     ELSE [i \in 1..Len(kept) |->
                              [source |-> cls.name, target |-> kept[i].targetClass,
                               relationship |-> kept[i].relationship]]
         IN  mine \o KeptConnections(Tail(classes), info)

\* inheritance_groups: in insertion order, [target, source_names]
RECURSIVE InheritanceGroups(_)
InheritanceGroups(kept) ==
    IF kept = <<>> THEN <<>>
    ELSE LET c == kept[Len(kept)]
             groups == InheritanceGroups(SubSeq(kept, 1, Len(kept) - 1))
         IN  IF c.relationship # "inheritance" THEN groups
             ELSE IF \E i \in 1..Len(groups) : groups[i].target = c.target
             THEN [i \in 1..Len(groups) |->
                     IF groups[i].target = c.target
                     THEN [groups[i] EXCEPT !.source_names = Append(@, c.source)]
                     ELSE groups[i]]
             ELSE Append(groups, [target |-> c.target, source_names |-> <<c.source>>])

RECURSIVE Concat(_)
Concat(ss) == IF ss = <<>> THEN <<>> ELSE Head(ss) \o Concat(Tail(ss))

\* the generalization tree of one group with more than one source
DrawGroup(group, info) ==
    LET target_pos == info[group.target]
        parent_x == target_pos[1] + (target_pos[3] \div 2)
        parent_y == target_pos[2]
        children_positions ==
            [i \in 1..Len(group.source_names) |->
                LET src == info[group.source_names[i]]
                IN  <<src[1] + (src[3] \div 2), src[2] + src[4]>>]
        cmds == draw_proper_generalization(<<parent_x, parent_y>>, children_positions)
        branchNo(k) == Cardinality({m \in 1..k : cmds[m].part = "branch"})
    IN  [k \in 1..Len(cmds) |->
            [cmds[k] EXCEPT !.owner =
                [source |-> IF cmds[k].part = "branch"
                            THEN group.source_names[branchNo(k)] ELSE <<>>,
                 target |-> group.target,
                 relationship |-> "generalization"]]]

\* one ordinary connector between two placed classes
DrawRegular(c, info) ==
    LET source_class_pos == info[c.source]
        target_class_pos == info[c.target]
        target_center_x == target_class_pos[1] + (target_class_pos[3] \div 2)
        target_center_y == target_class_pos[2] + (target_class_pos[4] \div 2)
        source_center_x == source_class_pos[1] + (source_class_pos[3] \div 2)
        source_center_y == source_class_pos[2] + (source_class_pos[4] \div 2)
        start_point == _get_best_connection_point(source_class_pos,
                                                  target_center_x, target_center_y)
        end_point == _get_best_connection_point(target_class_pos,
                                                source_center_x, source_center_y)
    IN  Owned(drawConnection(start_point.x, start_point.y, end_point.x, end_point.y,
                             c.relationship),
              "connector", c)

_draw_connections(classes, positions, boxes) ==
    LET info == class_name_to_info(classes, positions, boxes)
        kept == KeptConnections(classes, info)
        inheritance_groups == InheritanceGroups(kept)
        merged == SelectSeq(inheritance_groups, LAMBDA g : Len(g.source_names) > 1)
        single == SelectSeq(inheritance_groups, LAMBDA g : Len(g.source_names) <= 1)
        all_connections ==
            SelectSeq(kept, LAMBDA c : c.relationship # "inheritance")
            \o [i \in 1..Len(single) |->
                   [source |-> single[i].source_names[1], target |-> single[i].target,
                    relationship |-> "inheritance"]]
        processed_inheritance ==
            UNION {{merged[i].source_names[k] : k \in 1..Len(merged[i].source_names)} :
                      i \in 1..Len(merged)}
        drawn == SelectSeq(all_connections,
                           LAMBDA c : ~(c.relationship = "inheritance"
                                        /\ c.source \in processed_inheritance))
    IN  Concat([i \in 1..Len(merged) |-> DrawGroup(merged[i], info)])
        \o Concat([i \in 1..Len(drawn) |-> DrawRegular(drawn[i], info)])

\* api/index.py draws connections by the same steps
_draw_connections_with_robust_modules(classes, positions, boxes) ==
    _draw_connections(classes, positions, boxes)

NoStyling == [given |-> FALSE, image_width |-> 0, image_height |-> 0]

\* the box images of the classes, by position in the class list
RECURSIVE ClassBoxes(_, _)
ClassBoxes(classes, f) ==
    IF classes = <<>> THEN <<>>
    ELSE <<create_class_box(Head(classes), f)>> \o ClassBoxes(Tail(classes), f)

\* the index of the last class with this id (a dict keeps the last value)
LastIndex(classes, id) ==
    CHOOSE k \in 1..Len(classes) :
        classes[k].id = id /\ \A m \in 1..Len(classes) : classes[m].id = id => m <= k

\* generate_full_diagram: boxes in one column at y = 80 + 350*i, each followed
\* by its notes; the result is [positions, boxes, canvas, existing_notes]
FullPosition(i, size, img_width, img_height) ==
    LET x == FULL_START_X
        y == FULL_START_Y + ((i - 1) * FULL_ROW_HEIGHT)
    IN  <<Max2(0, Min2(x, img_width - size[1])), Max2(0, Min2(y, img_height - size[2]))>>

RECURSIVE PlaceNotes(_, _, _, _, _, _, _)
PlaceNotes(notes, existing_notes, img_width, img_height, class_position, class_size, f) ==
    IF notes = <<>> THEN [existing_notes |-> existing_notes, cmds |-> <<>>]
    ELSE IF Head(notes) = <<>>
    THEN PlaceNotes(Tail(notes), existing_notes, img_width, img_height,
                    class_position, class_size, f)
    ELSE LET then(r, rest) ==
                 [existing_notes |-> rest.existing_notes, cmds |-> r.cmds \o rest.cmds]
             next(r) ==
                 then(r, PlaceNotes(Tail(notes), r.existing_notes, img_width, img_height,
                                    class_position, class_size, f))
         IN  next(note(existing_notes, img_width, img_height, Head(notes),
                       class_position, class_size, f, "right", NOTE_OFFSET, TRUE))

RECURSIVE FullBoxesAndNotes(_, _, _, _, _, _, _)
FullBoxesAndNotes(classes, sizes, i, existing_notes, img_width, img_height, f) ==
    IF i > Len(classes) THEN [existing_notes |-> existing_notes, cmds |-> <<>>]
    ELSE LET size == sizes[i]
             then(pos, placed, rest) ==
                 [existing_notes |-> rest.existing_notes,
                  cmds |-> <<[RectCmd("box", pos[1], pos[2], size[1], size[2])
                                 EXCEPT !.owner.source = classes[i].name]>>
                           \o placed.cmds \o rest.cmds]
             notes(pos, placed) ==
                 then(pos, placed,
                      FullBoxesAndNotes(classes, sizes, i + 1, placed.existing_notes,
                                        img_width, img_height, f))
             paste(pos) ==
                 notes(pos, PlaceNotes(classes[i].notes, existing_notes, img_width,
                                       img_height, pos, size, f))
         IN  paste(FullPosition(i, size, img_width, img_height))

generate_full_diagram(classes, styling, f) ==
    LET ids == {classes[i].id : i \in 1..Len(classes)}
        result(positions, boxes, drawn) ==
            [positions |-> positions, boxes |-> boxes,
             existing_notes |-> drawn.existing_notes,
             canvas |-> drawn.cmds \o _draw_connections(classes, positions, boxes)]
        place(img_width, img_height, sizes, boxes) ==
            result([id \in ids |-> FullPosition(LastIndex(classes, id), boxes[id],
                                                img_width, img_height)],
                   boxes,
                   FullBoxesAndNotes(classes, sizes, 1, clear_notes, img_width, img_height, f))
        layout(img_width, img_height, sizes) ==
            place(img_width, img_height, sizes,
                  [id \in ids |-> sizes[LastIndex(classes, id)]])
    IN  layout(IF styling.given THEN styling.image_width ELSE FULL_DEFAULT_WIDTH,
               IF styling.given THEN styling.image_height ELSE FULL_DEFAULT_HEIGHT,
               ClassBoxes(classes, f))

\* generate_simple_diagram: one centred column with 60px gaps, no notes
\* (class ids are distinct, so the box pasted for a class is at positions[id])
RECURSIVE SimpleCurrentYNoAdvance(_, _, _)
SimpleCurrentYNoAdvance(sizes, i, start_y) ==
    IF i = 1 THEN start_y
    ELSE SimpleCurrentYNoAdvance(sizes, i - 1, start_y)

RECURSIVE SimpleCurrentY(_, _, _)
SimpleCurrentY(sizes, i, start_y) ==
    IF i = 1 THEN start_y
    ELSE SimpleCurrentY(sizes, i - 1, start_y) + sizes[i - 1][2] + SIMPLE_SPACING

generate_simple_diagram(classes, styling, f) ==
    LET n == Len(classes)
        ids == {classes[i].id : i \in 1..n}
        vertical_spacing == SIMPLE_SPACING
        result(positions, boxes) ==
            [positions |-> positions, boxes |-> boxes,
             existing_notes |-> clear_notes,
             canvas |-> [i \in 1..n |->
                            [RectCmd("box", positions[classes[i].id][1],
                                     positions[classes[i].id][2],
                                     boxes[classes[i].id][1], boxes[classes[i].id][2])
                                EXCEPT !.owner.source = classes[i].name]]
                        \o _draw_connections_with_robust_modules(classes, positions, boxes)]
        posOf(img_width, img_height, size, pos_x, pos_y) ==
            <<Max2(SIMPLE_MARGIN, Min2(pos_x, img_width - size[1] - SIMPLE_MARGIN)),
              Max2(SIMPLE_MARGIN, Min2(pos_y, img_height - size[2] - SIMPLE_MARGIN))>>
        place(img_width, img_height, sizes, boxes, start_y) ==
            result([id \in ids |->
                       posOf(img_width, img_height, boxes[id],
                             (img_width - boxes[id][1]) \div 2,
                             SimpleCurrentY(sizes, LastIndex(classes, id), start_y))],
                   boxes)
        centre(img_width, img_height, sizes, boxes, total_height) ==
            place(img_width, img_height, sizes, boxes,
                  Max2(SIMPLE_MIN_START_Y,
                       (img_height - (total_height + (vertical_spacing * (n - 1)))) \div 2))
        measure(img_width, img_height, sizes, boxes) ==
            centre(img_width, img_height, sizes, boxes,
                   SeqSum([i \in 1..n |-> boxes[classes[i].id][2]]))
        layout(img_width, img_height, sizes) ==
            measure(img_width, img_height, sizes,
                    [id \in ids |-> sizes[LastIndex(classes, id)]])
    IN  layout(IF styling.given THEN styling.image_width ELSE SIMPLE_DEFAULT_WIDTH,
               IF styling.given THEN styling.image_height ELSE SIMPLE_DEFAULT_HEIGHT,
               ClassBoxes(classes, f))

----------------------------------------------------------------------------
(* Variable groups and their idle values *)

boxVars == <<class_data, box>>
textVars == <<text, tw, th>>
pointVars == <<query, point>>
drawVars == <<conn, canvas>>
renderVars == <<classes_data, styling_options, class_positions, class_boxes, _existing_notes>>
noteVars == <<note_call, note_rect>>
managerVars == <<manager, returned>>

IdleText == text = <<>> /\ tw = 0 /\ th = 0
IdleBox == class_data = NoClass /\ box = NoBox
IdlePoint == query = NoQuery /\ point = NoPoint
IdleDraw == conn = NoConn /\ canvas = <<>>
IdleRender ==
    /\ classes_data = <<>> /\ styling_options = NoStyling
    /\ class_positions = <<>> /\ class_boxes = <<>> /\ _existing_notes = <<>>
NoNoteCall ==
    [note_text |-> <<>>, class_position |-> <<0, 0>>, class_size |-> <<0, 0>>,
     note_position |-> "none", avoid_collisions |-> FALSE, placed |-> <<>>]
NoRect == <<0, 0, 0, 0>>
IdleNote == note_call = NoNoteCall /\ note_rect = NoRect
IdleThreads == threads = <<>>
IdleManager == manager = NoManager /\ returned = "none"

----------------------------------------------------------------------------
(* Specification SpecText: calculateBoxWidth / calculateBoxHeight *)

InitText ==
    /\ font \in Fonts
    /\ text \in Strings
    /\ tw = 0 /\ th = 0
    /\ IdleBox /\ IdlePoint /\ IdleDraw /\ IdleRender /\ IdleNote /\ IdleThreads /\ IdleManager
    /\ pc = "input"

\* measure the text
CalculateBox ==
    /\ pc = "input"
    /\ tw' = calculateBoxWidth(text, font)
    /\ th' = calculateBoxHeight(text, font)
    /\ pc' = "measured"
    /\ UNCHANGED <<managerVars, noteVars, threads, font, text, boxVars, pointVars, drawVars, renderVars>>

\* append one more line to the text and measure again
AppendLine(line) ==
    /\ pc = "measured"
    /\ text' = text \o <<NL>> \o line
    /\ tw' = calculateBoxWidth(text', font)
    /\ th' = calculateBoxHeight(text', font)
    /\ pc' = "appended"
    /\ UNCHANGED <<managerVars, noteVars, threads, font, boxVars, pointVars, drawVars, renderVars>>

OneLineStrings == {s \in Strings : \A i \in 1..Len(s) : s[i] # NL}

NextText ==
    \/ CalculateBox
    \/ \E line \in OneLineStrings : AppendLine(line)

SpecText == InitText /\ [][NextText]_vars

----------------------------------------------------------------------------
(* Specification SpecBox: mergeBoxes *)

InitBox ==
    /\ font \in Fonts
    /\ class_data \in [name : Strings, attributes : Strings, operations : Strings]
    /\ box = NoBox
    /\ IdleText /\ IdlePoint /\ IdleDraw /\ IdleRender /\ IdleNote /\ IdleThreads /\ IdleManager
    /\ pc = "input"

\* build the class box
MergeBoxes ==
    /\ pc = "input"
    /\ box' = mergeBoxes(class_data.name, class_data.attributes,
                          class_data.operations, font)
    /\ pc' = "merged"
    /\ UNCHANGED <<managerVars, noteVars, threads, font, class_data, textVars, pointVars, drawVars, renderVars>>

NextBox == MergeBoxes

SpecBox == InitBox /\ [][NextBox]_vars

----------------------------------------------------------------------------
(* Specification SpecPoint: _get_best_connection_point *)

BoxCoords == {0, 40}
BoxExtents == {20, 31}
Offsets == {0 - MaxOffset, -1, 0, 1, MaxOffset}

InitPoint ==
    /\ font = TrueTypeFont
    /\ \E x \in BoxCoords, y \in BoxCoords, w \in BoxExtents, h \in BoxExtents,
          ox \in Offsets, oy \in Offsets :
            query = [class_pos |-> <<x, y, w, h>>,
                     target_x |-> x + (w \div 2) + ox,
                     target_y |-> y + (h \div 2) + oy]
    /\ point = NoPoint
    /\ IdleText /\ IdleBox /\ IdleDraw /\ IdleRender /\ IdleNote /\ IdleThreads /\ IdleManager
    /\ pc = "input"

\* ask for the connection point
GetBestConnectionPoint ==
    /\ pc = "input"
    /\ point' = _get_best_connection_point(query.class_pos, query.target_x, query.target_y)
    /\ pc' = "pointed"
    /\ UNCHANGED <<managerVars, noteVars, threads, font, query, textVars, boxVars, drawVars, renderVars>>

NextPoint == GetBestConnectionPoint

SpecPoint == InitPoint /\ [][NextPoint]_vars

----------------------------------------------------------------------------
(* Specification SpecDraw: drawConnection *)

ConnectionTypes == {"association", "aggregation", "composition", "inheritance",
                    "inheritance_line", "realization", "dependency"}
EndPoints == {<<0, 0>>, <<MaxOffset, 0>>, <<0, MaxOffset>>, <<30, 40>>}

InitDraw ==
    /\ font = TrueTypeFont
    /\ conn \in [start : EndPoints, end : EndPoints,
                  connection_type : ConnectionTypes \cup {"other"}]
    /\ canvas = <<>>
    /\ IdleText /\ IdleBox /\ IdlePoint /\ IdleRender /\ IdleNote /\ IdleThreads /\ IdleManager
    /\ pc = "input"

\* draw the connector
DrawConnection ==
    /\ pc = "input"
    /\ canvas' = canvas \o drawConnection(conn.start[1], conn.start[2],
                                           conn.end[1], conn.end[2],
                                           conn.connection_type)
    /\ pc' = "drawn"
    /\ UNCHANGED <<managerVars, noteVars, threads, font, conn, textVars, boxVars, pointVars, renderVars>>

NextDraw == DrawConnection

SpecDraw == InitDraw /\ [][NextDraw]_vars

----------------------------------------------------------------------------
(* The caller of the renderers: it builds a class list, class by class and *)
(* connection by connection, and asks one of the services for the diagram. *)

\* the name of the i-th class of a diagram
NameOf(i) == [k \in 1..i |-> "a"]
\* a target name that no class of the diagram has
Dangling == <<"W", "W">>

NumConns == SeqSum([i \in 1..Len(classes_data) |-> Len(classes_data[i].connections)])

Discard ==
    /\ canvas' = <<>>
    /\ class_positions' = <<>>
    /\ class_boxes' = <<>>
    /\ pc' = "editing"

\* the caller appends a class to the list
AddClass(attributes, operations) ==
    /\ pc \in {"editing", "rendered_full", "rendered_simple", "no_diagram"}
    /\ Len(classes_data) < MaxClasses
    /\ classes_data' = Append(classes_data,
                              [id |-> Len(classes_data) + 1,
                               name |-> NameOf(Len(classes_data) + 1),
                               attributes |-> attributes, operations |-> operations,
                               notes |-> <<>>, connections |-> <<>>])
    /\ Discard
    /\ UNCHANGED <<managerVars, noteVars, threads, font, styling_options, _existing_notes, conn,
                   textVars, boxVars, pointVars>>

\* the caller appends a connection to the i-th class
AddConnection(i, targetClass, relationship, limit) ==
    /\ pc \in {"editing", "rendered_full", "rendered_simple"}
    /\ i \in 1..Len(classes_data)
    /\ NumConns < limit
    /\ Len(classes_data[i].connections) < MaxPerClass
    /\ classes_data' = [classes_data EXCEPT ![i].connections =
                           Append(@, [targetClass |-> targetClass,
                                      relationship |-> relationship])]
    /\ Discard
    /\ UNCHANGED <<managerVars, noteVars, threads, font, styling_options, _existing_notes, conn,
                   textVars, boxVars, pointVars>>

NumNotes == SeqSum([i \in 1..Len(classes_data) |-> Len(classes_data[i].notes)])

\* the caller appends a note (its text) to the i-th class
AddNote(i, note_text) ==
    /\ pc \in {"editing", "rendered_full", "rendered_simple"}
    /\ i \in 1..Len(classes_data)
    /\ NumNotes < MaxNotes
    /\ classes_data' = [classes_data EXCEPT ![i].notes = Append(@, note_text)]
    /\ Discard
    /\ UNCHANGED <<managerVars, noteVars, threads, font, styling_options, _existing_notes, conn,
                   textVars, boxVars, pointVars>>

\* the next request carries no classes
NewRequest ==
    /\ pc \in {"rendered_full", "rendered_simple"}
    /\ classes_data' = <<>>
    /\ Discard
    /\ UNCHANGED <<managerVars, noteVars, threads, font, styling_options, _existing_notes, conn,
                   textVars, boxVars, pointVars>>

GenerateFullDiagramClearFirst ==
    /\ pc = "editing"
    /\ IF classes_data = <<>>
       THEN /\ pc' = "no_diagram"
            /\ _existing_notes' = clear_notes
            /\ UNCHANGED <<canvas, class_positions, class_boxes>>
       ELSE LET r == generate_full_diagram(classes_data, styling_options, font)
            IN  /\ canvas' = r.canvas
                /\ class_positions' = r.positions
                /\ class_boxes' = r.boxes
                /\ _existing_notes' = r.existing_notes
                /\ pc' = "rendered_full"
    /\ UNCHANGED <<managerVars, noteVars, threads, font, classes_data, styling_options, conn,
                   textVars, boxVars, pointVars>>

\* app.py: UMLDiagramService.generate_full_diagram
GenerateFullDiagram ==
    /\ pc = "editing"
    /\ IF classes_data = <<>>
       THEN /\ pc' = "no_diagram"
            /\ UNCHANGED <<canvas, class_positions, class_boxes, _existing_notes>>
       ELSE LET r == generate_full_diagram(classes_data, styling_options, font)
            IN  /\ canvas' = r.canvas
                /\ class_positions' = r.positions
                /\ class_boxes' = r.boxes
                /\ _existing_notes' = r.existing_notes
                /\ pc' = "rendered_full"
    /\ UNCHANGED <<managerVars, noteVars, threads, font, classes_data, styling_options, conn,
                   textVars, boxVars, pointVars>>

\* api/index.py: UMLDiagramService.generate_simple_diagram
GenerateSimpleDiagram ==
    /\ pc = "editing"
    /\ IF classes_data = <<>>
       THEN /\ pc' = "no_diagram"
            /\ UNCHANGED <<canvas, class_positions, class_boxes, _existing_notes>>
       ELSE LET r == generate_simple_diagram(classes_data, styling_options, font)
            IN  /\ canvas' = r.canvas
                /\ class_positions' = r.positions
                /\ class_boxes' = r.boxes
                /\ _existing_notes' = r.existing_notes
                /\ pc' = "rendered_simple"
    /\ UNCHANGED <<managerVars, noteVars, threads, font, classes_data, styling_options, conn,
                   textVars, boxVars, pointVars>>

----------------------------------------------------------------------------
(* Specification SpecRender: grouping of connections.  Classes without     *)
(* attributes and operations, default canvas, any mix of inheritance and   *)
(* association connections, dangling targets included.                     *)

InitRender ==
    /\ font = TrueTypeFont
    /\ classes_data = <<>>
    /\ styling_options = NoStyling
    /\ class_positions = <<>> /\ class_boxes = <<>> /\ _existing_notes = <<>>
    /\ conn = NoConn /\ canvas = <<>>
    /\ IdleText /\ IdleBox /\ IdlePoint /\ IdleNote /\ IdleThreads /\ IdleManager
    /\ pc = "editing"

RenderTargets == {NameOf(i) : i \in 1..MaxClasses} \cup {Dangling}
RenderRelationships == {"inheritance", "association"}

NextRender ==
    \/ AddClass(<<>>, <<>>)
    \/ \E i \in 1..MaxClasses, t \in RenderTargets, r \in RenderRelationships :
          AddConnection(i, t, r, MaxConns)
    \/ GenerateFullDiagram
    \/ GenerateSimpleDiagram

SpecRender == InitRender /\ [][NextRender]_vars

----------------------------------------------------------------------------
(* Specification SpecGeo: geometry of trees and connectors.  Classes of    *)
(* different heights, default and small canvases, connections between the  *)
(* classes of the diagram.                                                 *)

SmallCanvas == [given |-> TRUE, image_width |-> 400, image_height |-> 400]

InitGeo ==
    /\ font = TrueTypeFont
    /\ classes_data = <<>>
    /\ styling_options \in {NoStyling, SmallCanvas}
    /\ class_positions = <<>> /\ class_boxes = <<>> /\ _existing_notes = <<>>
    /\ conn = NoConn /\ canvas = <<>>
    /\ IdleText /\ IdleBox /\ IdlePoint /\ IdleNote /\ IdleThreads /\ IdleManager
    /\ pc = "editing"

NextGeo ==
    \/ \E o \in {<<>>, <<"W">>} : AddClass(<<"W">>, o)
    \/ \E i \in 1..MaxClasses, k \in 1..MaxClasses, r \in RenderRelationships :
          /\ k <= Len(classes_data)
          /\ AddConnection(i, NameOf(k), r, MaxGeoConns)
    \/ GenerateFullDiagram
    \/ GenerateSimpleDiagram

SpecGeo == InitGeo /\ [][NextGeo]_vars

----------------------------------------------------------------------------
(* Specification SpecManager: a ConnectionManager on which classes are      *)
(* registered and registered again, and connections are added and removed. *)

ManagerNames == {NameOf(1), NameOf(2)}
ManagerRects(class_name) ==
    IF class_name = NameOf(1) THEN {<<0, 0, 100, 50>>, <<200, 200, 100, 50>>}
    ELSE {<<20, 10, 60, 30>>, <<150, 0, 100, 50>>}
ConnectionIds == {"c1", "c2"}

InitManager ==
    /\ font = TrueTypeFont
    /\ manager = NoManager
    /\ returned = "none"
    /\ IdleRender /\ IdleDraw /\ IdleText /\ IdleBox /\ IdlePoint /\ IdleNote /\ IdleThreads
    /\ pc = "managing"

ManagerUnchanged ==
    UNCHANGED <<noteVars, threads, font, renderVars, drawVars, textVars, boxVars, pointVars, pc>>

ManagerAddClassPosition(class_name, r) ==
    /\ pc = "managing"
    /\ manager' = add_class_position(manager, class_name, r[1], r[2], r[3], r[4])
    /\ returned' = "none"
    /\ ManagerUnchanged

ManagerAddConnection(connection) ==
    /\ pc = "managing"
    /\ Len(manager.connections) < MaxStored
    /\ manager' = add_connection(manager, connection).manager
    /\ returned' = add_connection(manager, connection).returned
    /\ ManagerUnchanged

ManagerRemoveConnection(connection_id) ==
    /\ pc = "managing"
    /\ manager' = remove_connection(manager, connection_id)
    /\ returned' = "none"
    /\ ManagerUnchanged

NextManager ==
    \/ \E n \in ManagerNames : \E r \in ManagerRects(n) : ManagerAddClassPosition(n, r)
    \/ \E id \in ConnectionIds, f \in ManagerNames \cup {Dangling}, t \in ManagerNames \cup {Dangling} :
          ManagerAddConnection(UMLConnection(id, f, t))
    \/ \E id \in ConnectionIds : ManagerRemoveConnection(id)

SpecManager == InitManager /\ [][NextManager]_vars

----------------------------------------------------------------------------
(* Specification SpecDangling: connections whose target is missing or is   *)
(* not a class of the diagram, next to inheritance connections that are.   *)

\* targetClass and relationship of the connections the caller may list: an
\* absent or empty targetClass is <<>>
DanglingOptions ==
    {<<t, "inheritance">> : t \in RenderTargets \cup {<<>>}}
    \cup {<<t, "association">> : t \in {NameOf(1), Dangling, <<>>}}

NextDangling ==
    \/ AddClass(<<>>, <<>>)
    \/ \E i \in 1..MaxClasses, o \in DanglingOptions :
          AddConnection(i, o[1], o[2], MaxConns)
    \/ GenerateFullDiagram
    \/ GenerateSimpleDiagram

SpecDangling == InitRender /\ [][NextDangling]_vars

----------------------------------------------------------------------------
(* Specification SpecLayout: the box positions of both renderers on        *)
(* canvases that are roomy, narrow, short, or barely larger than a box.    *)

NarrowTallCanvas == [given |-> TRUE, image_width |-> 160, image_height |-> 400]
ShortCanvas == [given |-> TRUE, image_width |-> 400, image_height |-> 200]
TightCanvas == [given |-> TRUE, image_width |-> 150, image_height |-> 60]
ExactCanvas == [given |-> TRUE, image_width |-> 400, image_height |-> 172]
LayoutCanvases ==
    {NoStyling, SmallCanvas, NarrowTallCanvas, ShortCanvas, TightCanvas, ExactCanvas}

InitLayout ==
    /\ font = TrueTypeFont
    /\ classes_data = <<>>
    /\ styling_options \in LayoutCanvases
    /\ class_positions = <<>> /\ class_boxes = <<>> /\ _existing_notes = <<>>
    /\ conn = NoConn /\ canvas = <<>>
    /\ IdleText /\ IdleBox /\ IdlePoint /\ IdleNote /\ IdleThreads /\ IdleManager
    /\ pc = "editing"

NextLayout ==
    \/ \E o \in {<<>>, <<"W">>} : AddClass(<<"W">>, o)
    \/ GenerateFullDiagram
    \/ GenerateSimpleDiagram

SpecLayout == InitLayout /\ [][NextLayout]_vars

----------------------------------------------------------------------------
(* Specification SpecNear: connectors between boxes that the clamp of a      *)
(* short canvas has pushed close together, next to boxes a full gap apart.  *)

NearCanvases == {SmallCanvas, ShortCanvas, ExactCanvas}
NearRelationships == {"association", "aggregation", "inheritance"}

InitNear ==
    /\ font = TrueTypeFont
    /\ classes_data = <<>>
    /\ styling_options \in NearCanvases
    /\ class_positions = <<>> /\ class_boxes = <<>> /\ _existing_notes = <<>>
    /\ conn = NoConn /\ canvas = <<>>
    /\ IdleText /\ IdleBox /\ IdlePoint /\ IdleNote /\ IdleThreads /\ IdleManager
    /\ pc = "editing"

NextNear ==
    \/ AddClass(<<"W">>, <<>>)
    \/ \E i \in 1..MaxClasses, k \in 1..MaxClasses, r \in NearRelationships :
          /\ k <= Len(classes_data)
          /\ AddConnection(i, NameOf(k), r, MaxGeoConns)
    \/ GenerateFullDiagram
    \/ GenerateSimpleDiagram

SpecNear == InitNear /\ [][NextNear]_vars

----------------------------------------------------------------------------
(* Specification SpecNotes: requests rendered one after the other by the   *)
(* same service; classes carry notes, and a request may carry no classes.  *)

NarrowCanvas == [given |-> TRUE, image_width |-> 140, image_height |-> 400]
NoteTexts == {<<>>, <<"a">>, <<"W">>}

InitNotes ==
    /\ font = TrueTypeFont
    /\ classes_data = <<>>
    /\ styling_options \in {NoStyling, NarrowCanvas}
    /\ class_positions = <<>> /\ class_boxes = <<>> /\ _existing_notes = <<>>
    /\ conn = NoConn /\ canvas = <<>>
    /\ IdleText /\ IdleBox /\ IdlePoint /\ IdleNote /\ IdleThreads /\ IdleManager
    /\ pc = "editing"

NextNotes ==
    \/ AddClass(<<>>, <<>>)
    \/ \E i \in 1..MaxClasses, t \in NoteTexts : AddNote(i, t)
    \/ NewRequest
    \/ GenerateFullDiagram
    \/ GenerateSimpleDiagram

SpecNotes == InitNotes /\ [][NextNotes]_vars

----------------------------------------------------------------------------
(* Specification SpecNote: clear_notes() and note() called on one image.    *)
(* note_call records the arguments of the last note() call and the list    *)
(* _existing_notes held when it was entered; note_rect is what it returned.*)

RoomyImage == [given |-> TRUE, image_width |-> 200, image_height |-> 200]
CrampedImage == [given |-> TRUE, image_width |-> 60, image_height |-> 60]
NoteImages == {RoomyImage, CrampedImage}
NotedClasses ==
    {[class_position |-> <<80, 80>>, class_size |-> <<27, 57>>],
     [class_position |-> <<10, 2>>, class_size |-> <<34, 57>>]}
NotePositions == {"auto", "right", "left", "top", "bottom"}

\* note() calls made on the image so far
NotesDrawn == Cardinality({i \in 1..Len(canvas) : canvas[i].part = "note"})

InitNote ==
    /\ font = TrueTypeFont
    /\ styling_options \in NoteImages
    /\ classes_data = <<>> /\ class_positions = <<>> /\ class_boxes = <<>>
    /\ _existing_notes = <<>>
    /\ conn = NoConn /\ canvas = <<>>
    /\ IdleText /\ IdleBox /\ IdlePoint /\ IdleNote /\ IdleThreads /\ IdleManager
    /\ pc = "placing"

CallClearNotes ==
    /\ pc = "placing"
    /\ _existing_notes' = clear_notes
    /\ UNCHANGED <<managerVars, noteVars, threads, font, classes_data, styling_options, class_positions,
                   class_boxes, drawVars, textVars, boxVars, pointVars, pc>>

CallNoteUnrecorded(note_text, cls, note_position, avoid_collisions) ==
    /\ pc = "placing"
    /\ NotesDrawn < MaxNotes
    /\ LET r == note(_existing_notes, styling_options.image_width,
                     styling_options.image_height, note_text, cls.class_position,
                     cls.class_size, font, note_position, NOTE_OFFSET, avoid_collisions)
       IN  /\ note_rect' = r.rect
           /\ _existing_notes' = _existing_notes
           /\ canvas' = canvas \o r.cmds
    /\ note_call' = [note_text |-> note_text, class_position |-> cls.class_position,
                     class_size |-> cls.class_size, note_position |-> note_position,
                     avoid_collisions |-> avoid_collisions, placed |-> _existing_notes]
    /\ UNCHANGED <<managerVars, threads, font, classes_data, styling_options, class_positions,
                   class_boxes, conn, textVars, boxVars, pointVars, pc>>

CallNote(note_text, cls, note_position, avoid_collisions) ==
    /\ pc = "placing"
    /\ NotesDrawn < MaxNotes
    /\ LET r == note(_existing_notes, styling_options.image_width,
                     styling_options.image_height, note_text, cls.class_position,
                     cls.class_size, font, note_position, NOTE_OFFSET, avoid_collisions)
       IN  /\ note_rect' = r.rect
           /\ _existing_notes' = r.existing_notes
           /\ canvas' = canvas \o r.cmds
    /\ note_call' = [note_text |-> note_text, class_position |-> cls.class_position,
                     class_size |-> cls.class_size, note_position |-> note_position,
                     avoid_collisions |-> avoid_collisions, placed |-> _existing_notes]
    /\ UNCHANGED <<managerVars, threads, font, classes_data, styling_options, class_positions,
                   class_boxes, conn, textVars, boxVars, pointVars, pc>>

NextNote ==
    \/ CallClearNotes
    \/ \E cls \in NotedClasses, t \in {<<"a">>, <<"W">>}, p \in NotePositions, a \in BOOLEAN :
          CallNote(t, cls, p, a)

SpecNote == InitNote /\ [][NextNote]_vars

----------------------------------------------------------------------------
(* Specification SpecConcurrent: two requests served by threads of one      *)
(* process.  Each runs generate_full_diagram for one class with some notes; *)
(* the threads share the module's _existing_notes and interleave between   *)
(* clear_notes() and the note() calls.  threads[t] holds the request of    *)
(* thread t: its class list, the notes still to place, the rectangles its  *)
(* note() calls returned and the list it left behind.                      *)

RenderThreads == {1, 2}
IdleThread == [state |-> "idle", classes |-> <<>>, todo |-> <<>>, rects |-> <<>>, list |-> <<>>]

RequestClasses(attributes, k) ==
    <<[id |-> 1, name |-> NameOf(1), attributes |-> attributes, operations |-> <<>>,
       notes |-> [i \in 1..k |-> <<"a">>], connections |-> <<>>]>>

InitConcurrent ==
    /\ font = TrueTypeFont
    /\ threads = [t \in RenderThreads |-> IdleThread]
    /\ IdleRender /\ IdleDraw /\ IdleText /\ IdleBox /\ IdlePoint /\ IdleNote /\ IdleManager
    /\ pc = "serving"

ThreadUnchanged ==
    UNCHANGED <<managerVars, noteVars, font, classes_data, styling_options, class_positions, class_boxes,
                drawVars, textVars, boxVars, pointVars, pc>>

\* a request arrives: clear_notes() and the first lines of the render
ThreadBegin(t, classes) ==
    /\ threads[t].state = "idle"
    /\ _existing_notes' = clear_notes
    /\ threads' = [threads EXCEPT ![t] = [state |-> "placing", classes |-> classes,
                                         todo |-> classes[1].notes, rects |-> <<>>,
                                         list |-> <<>>]]
    /\ ThreadUnchanged

\* the next note() call of the render
ThreadPlaceNote(t) ==
    /\ threads[t].state = "placing"
    /\ threads[t].todo # <<>>
    /\ LET size == create_class_box(threads[t].classes[1], font)
           place(r) ==
               /\ _existing_notes' = r.existing_notes
               /\ threads' = [threads EXCEPT ![t].todo = Tail(@),
                                             ![t].rects = Append(@, r.rect)]
       IN  place(note(_existing_notes, FULL_DEFAULT_WIDTH, FULL_DEFAULT_HEIGHT,
                      Head(threads[t].todo),
                      FullPosition(1, size, FULL_DEFAULT_WIDTH, FULL_DEFAULT_HEIGHT),
                      size, font, "right", NOTE_OFFSET, TRUE))
    /\ ThreadUnchanged

\* the render returns; the thread's view of the placed-note list at that time
ThreadEnd(t) ==
    /\ threads[t].state = "placing"
    /\ threads[t].todo = <<>>
    /\ threads' = [threads EXCEPT ![t].state = "done", ![t].list = _existing_notes]
    /\ UNCHANGED _existing_notes
    /\ ThreadUnchanged

\* the thread takes the next request
ThreadNext(t) ==
    /\ threads[t].state = "done"
    /\ threads' = [threads EXCEPT ![t] = IdleThread]
    /\ UNCHANGED _existing_notes
    /\ ThreadUnchanged

NextConcurrent ==
    \E t \in RenderThreads :
        \/ \E k \in 1..MaxNotes, attributes \in {<<>>, <<"W">>} :
              ThreadBegin(t, RequestClasses(attributes, k))
        \/ ThreadPlaceNote(t)
        \/ ThreadEnd(t)
        \/ ThreadNext(t)

SpecConcurrent == InitConcurrent /\ [][NextConcurrent]_vars

----------------------------------------------------------------------------
(* Claims about text measurement (SpecText) *)

\* C1: calculateBoxWidth returns min(widest line + 2*PADDING_X, MAX_BOX_WIDTH)
\* and calculateBoxHeight returns the sum of the line heights + 2*PADDING_Y;
\* the width never exceeds 250 and is exactly 250 once the widest line is
\* 230px or more; appending a line never decreases the height.
C1_Metrics ==
    /\ [](pc # "input" =>
            LET lines == Split(text)
                widths == {LineWidth(lines[i], font) : i \in 1..Len(lines)}
                widest == CHOOSE w \in widths : \A v \in widths : v <= w
            IN  /\ tw = Min2(widest + 20, 250)
                /\ th = SeqSum([i \in 1..Len(lines) |-> LineHeight(lines[i], font)]) + 10
                /\ tw <= 250
                /\ (widest >= 230 => tw = 250))
    /\ [][pc' = "appended" => th' >= th]_vars

C1_Witness ==
    /\ pc = "appended"
    /\ Len(Split(text)) >= 2
    /\ WidestLine(text, font) >= 230
    /\ tw = 250

----------------------------------------------------------------------------
(* Claims about class boxes (SpecBox) *)

SectionWidth(t, f) == Min2(WidestLine(t, f) + 20, 250)
SectionHeight(t, f) == SumLineHeights(t, f) + 10

BoxWidthAndHeight ==
    LET n == class_data.name
        a == class_data.attributes
        o == class_data.operations
        nw == SectionWidth(n, font)
        aw == IF a = <<>> THEN nw ELSE SectionWidth(a, font)
        ow == IF o = <<>> THEN nw ELSE SectionWidth(o, font)
    IN  /\ \A w \in {nw, aw, ow} : w <= box.width
        /\ box.width \in {nw, aw, ow}
        /\ box.height = box.name_height + box.attr_height + box.ops_height
        /\ (a = <<>> => box.attr_height = 20)
        /\ (o = <<>> => box.ops_height = 20)
        /\ (a # <<>> => box.attr_height = SectionHeight(a, font))
        /\ (o # <<>> => box.ops_height = SectionHeight(o, font))
        /\ box.width <= 250
        /\ box.width > 0 /\ box.height > 0

\* C2 (as stated): the box width is the maximum of the three section widths and
\* the height the sum of the three section heights, an empty attributes or
\* operations section contributes exactly 20px, and every section (the name
\* section included) contributes at least 20px when its content is empty.
C2_Original ==
    pc = "merged" =>
        /\ BoxWidthAndHeight
        /\ (class_data.name = <<>> => box.name_height >= 20)
        /\ (class_data.attributes = <<>> => box.attr_height >= 20)
        /\ (class_data.operations = <<>> => box.ops_height >= 20)

\* C2 (amended): as stated, except that only the attributes and operations
\* sections have the 20px minimum; the name section always contributes its
\* measured height, the sum of its line heights + 10, which is at least 10px.
C2_Amended ==
    pc = "merged" =>
        /\ BoxWidthAndHeight
        /\ box.name_height = SectionHeight(class_data.name, font)
        /\ box.name_height >= 10
        /\ (class_data.attributes = <<>> => box.attr_height >= 20)
        /\ (class_data.operations = <<>> => box.ops_height >= 20)

C2_Witness ==
    /\ pc = "merged"
    /\ class_data.name = <<>>
    /\ class_data.attributes = <<>>
    /\ class_data.operations # <<>>
    /\ box.name_height = 10
    /\ box.attr_height = 20

\* C3: every class box has exactly two horizontal separators, at
\* y1 = name height and y2 = name height + attributes height, with
\* 0 < y1 < y2 < total height, also when attributes or operations are empty.
C3_ThreeCompartments ==
    pc = "merged" =>
        /\ Len(box.lines) = 2
        /\ \A i \in 1..2 : /\ box.lines[i][2] = box.lines[i][4]
                            /\ box.lines[i][1] = 0
                            /\ box.lines[i][3] = box.width
        /\ box.lines[1][2] = SectionHeight(class_data.name, font)
        /\ box.lines[2][2] = box.lines[1][2] + box.attr_height
        /\ 0 < box.lines[1][2]
        /\ box.lines[1][2] < box.lines[2][2]
        /\ box.lines[2][2] < box.height
        /\ box.lines[2][2] < box.border[4]

C3_Witness ==
    /\ pc = "merged"
    /\ class_data.attributes = <<>>
    /\ class_data.operations = <<>>
    /\ Len(box.lines) = 2
    /\ box.lines[1][2] < box.lines[2][2]
    /\ box.lines[2][2] = box.height - 20

----------------------------------------------------------------------------
(* Claims about connection points (SpecPoint) *)

\* C4: with (cx, cy) the box centre and (dx, dy) the vector to the target,
\* the point is (x+w+15, cy, right) if |dx| > |dy| and dx > 0, (x-15, cy, left)
\* if |dx| > |dy| and dx < 0, otherwise (tie included) (cx, y+h+15, bottom) if
\* dy > 0 and (cx, y-15, top) if dy <= 0: always 15px outside the chosen edge
\* on its centre line.
C4_BestPoint ==
    pc = "pointed" =>
        LET x == query.class_pos[1]
            y == query.class_pos[2]
            w == query.class_pos[3]
            h == query.class_pos[4]
            cx == x + (w \div 2)
            cy == y + (h \div 2)
            dx == query.target_x - cx
            dy == query.target_y - cy
            horizontal == dx * dx > dy * dy
        IN  /\ (horizontal /\ dx > 0) => point = [x |-> x + w + 15, y |-> cy, side |-> "right"]
            /\ (horizontal /\ dx < 0) => point = [x |-> x - 15, y |-> cy, side |-> "left"]
            /\ (~horizontal /\ dy > 0) => point = [x |-> cx, y |-> y + h + 15, side |-> "bottom"]
            /\ (~horizontal /\ dy <= 0) => point = [x |-> cx, y |-> y - 15, side |-> "top"]
            /\ point.side \in {"right", "left", "bottom", "top"}
            /\ (dy = 0 /\ dx > 0) => point.side = "right"
            /\ (dy = 0 /\ dx < 0) => point.side = "left"
            /\ (dx = 0 /\ dy < 0) => point.side = "top"
            /\ (dx = 0 /\ dy > 0) => point.side = "bottom"

C4_Witness ==
    /\ pc = "pointed"
    /\ query.target_x - (query.class_pos[1] + (query.class_pos[3] \div 2)) = 1
    /\ query.target_y - (query.class_pos[2] + (query.class_pos[4] \div 2)) = 1
    /\ query.class_pos[3] = 31
    /\ point.side = "bottom"

----------------------------------------------------------------------------
(* Claims about drawConnection (SpecDraw) *)

Lines(cmds) == SelectSeq(cmds, LAMBDA c : c.kind = "line")
GlyphsOf(cmds) == SelectSeq(cmds, LAMBDA c : c.kind # "line")

\* line style by type, and the glyph's kind, position and direction by type;
\* arrowFill is the fill of the arrowhead of association and dependency
ConnectionDrawnAs(arrowFill) ==
    LET t == conn.connection_type
        ls == Lines(canvas)
        gs == GlyphsOf(canvas)
    IN  /\ Len(ls) = 1
        /\ ls[1].from = conn.start /\ ls[1].to = conn.end
        /\ (ls[1].style = "dashed") <=> (t \in {"realization", "dependency"})
        /\ (ls[1].style = "solid") <=> (t \notin {"realization", "dependency"})
        /\ (t = "inheritance_line") => gs = <<>>
        /\ (t \in ConnectionTypes \ {"inheritance_line"}) =>
              /\ Len(gs) = 1
              /\ gs[1].to = conn.end
              /\ gs[1].from = conn.start
              /\ (t \in {"association", "dependency"}) =>
                    (gs[1].kind = "arrow" /\ gs[1].fill = arrowFill)
              /\ (t = "aggregation") => (gs[1].kind = "diamond" /\ gs[1].fill = "white")
              /\ (t = "composition") => (gs[1].kind = "diamond" /\ gs[1].fill = "line_color")
              /\ (t \in {"inheritance", "realization"}) =>
                    (gs[1].kind = "triangle" /\ gs[1].fill = "white")

\* C9 (as stated): the line is dashed exactly for realization and dependency;
\* the glyph, with its tip at the end point, is an open arrowhead for
\* association and dependency, a white-filled diamond for aggregation, a
\* filled diamond for composition, a white-filled triangle for inheritance and
\* realization, and absent for inheritance_line.
C9_Original ==
    (pc = "drawn" /\ conn.start # conn.end) => ConnectionDrawnAs("none")

\* C9 (amended): as stated, except that the arrowhead of association and
\* dependency is a closed polygon filled with the line colour.
C9_Amended ==
    (pc = "drawn" /\ conn.start # conn.end) => ConnectionDrawnAs("line_color")

C9_Witness ==
    /\ pc = "drawn"
    /\ conn.connection_type = "dependency"
    /\ conn.start # conn.end
    /\ Len(canvas) = 2
    /\ canvas[1].style = "dashed"
    /\ canvas[2].kind = "arrow"

----------------------------------------------------------------------------
(* Claims about the grouping of connections (SpecRender) *)

Rendered == pc \in {"rendered_full", "rendered_simple"}

PlacedNames == {classes_data[i].name : i \in 1..Len(classes_data)}

\* the rectangle <<x, y, w, h>> the last render gave the class of this name
RectOf(nm) ==
    LET i == CHOOSE k \in 1..Len(classes_data) : classes_data[k].name = nm
        id == classes_data[i].id
    IN  <<class_positions[id][1], class_positions[id][2],
          class_boxes[id][1], class_boxes[id][2]>>

CentreOf(nm) == <<RectOf(nm)[1] + (RectOf(nm)[3] \div 2), RectOf(nm)[2] + (RectOf(nm)[4] \div 2)>>
TopCentreOf(nm) == <<RectOf(nm)[1] + (RectOf(nm)[3] \div 2), RectOf(nm)[2]>>
BottomCentreOf(nm) == <<RectOf(nm)[1] + (RectOf(nm)[3] \div 2), RectOf(nm)[2] + RectOf(nm)[4]>>

\* the connections of the input from s to t of relationship r, as <<class, k>>
Instances(s, t, r) ==
    {ik \in UNION {{<<i, k>> : k \in 1..Len(classes_data[i].connections)} :
                      i \in 1..Len(classes_data)} :
        /\ classes_data[ik[1]].name = s
        /\ classes_data[ik[1]].connections[ik[2]].targetClass = t
        /\ classes_data[ik[1]].connections[ik[2]].relationship = r}

\* the inheriting connections of parent p, and its distinct children
Inheriting(p) == UNION {Instances(s, p, "inheritance") : s \in PlacedNames}
Children(p) == {s \in PlacedNames : Instances(s, p, "inheritance") # {}}

Cmds(part) == {j \in 1..Len(canvas) : canvas[j].part = part}
TreeCmds(p, part) ==
    {j \in Cmds(part) : canvas[j].owner.target = p
                        /\ canvas[j].owner.relationship = "generalization"}
Branches(s, p) == {j \in TreeCmds(p, "branch") : canvas[j].owner.source = s}
ConnCmds(s, t, r) ==
    {j \in Cmds("connector") :
        canvas[j].owner = [source |-> s, target |-> t, relationship |-> r]}
ConnLines(s, t, r) == {j \in ConnCmds(s, t, r) : canvas[j].kind = "line"}
ConnGlyphs(s, t, r) == {j \in ConnCmds(s, t, r) : canvas[j].kind # "line"}

\* the connector from s to t is one line between the two best connection
\* points with one triangle at the parent end (none if the points coincide)
OrdinaryInheritance(s, t) ==
    LET sp == _get_best_connection_point(RectOf(s), CentreOf(t)[1], CentreOf(t)[2])
        ep == _get_best_connection_point(RectOf(t), CentreOf(s)[1], CentreOf(s)[2])
    IN  /\ Cardinality(ConnLines(s, t, "inheritance")) = 1
        /\ \A j \in ConnLines(s, t, "inheritance") :
              canvas[j].from = <<sp.x, sp.y>> /\ canvas[j].to = <<ep.x, ep.y>>
        /\ (<<sp.x, sp.y>> # <<ep.x, ep.y>>) =>
              /\ Cardinality(ConnGlyphs(s, t, "inheritance")) = 1
              /\ \A j \in ConnGlyphs(s, t, "inheritance") :
                    canvas[j].kind = "triangle" /\ canvas[j].to = <<ep.x, ep.y>>

\* C5: a parent with n >= 2 inheriting children gets exactly one merged tree:
\* one triangle with its tip at the parent's attachment point, n branch lines
\* and no per-edge connector; a parent with exactly one inheriting child gets
\* no tree, the edge being an ordinary inheritance connector routed by the
\* best-connection-point rule.
C5_Grouping ==
    Rendered =>
        \A p \in PlacedNames :
            LET n == Cardinality(Inheriting(p))
            IN  /\ (n >= 2) =>
                      /\ Cardinality(TreeCmds(p, "triangle")) = 1
                      /\ \A j \in TreeCmds(p, "triangle") : canvas[j].to = TopCentreOf(p)
                      /\ Cardinality(TreeCmds(p, "branch")) = n
                      /\ \A s \in PlacedNames : ConnCmds(s, p, "inheritance") = {}
                /\ (n = 1) =>
                      /\ \A part \in {"triangle", "trunk", "bar", "branch"} :
                            TreeCmds(p, part) = {}
                      /\ \A s \in Children(p) : OrdinaryInheritance(s, p)

\* C6: every connection whose source and target classes exist is drawn exactly
\* once, as one branch of one merged tree or as one ordinary connector; in
\* particular the edge of a child of a merged group to a second parent of
\* which it is the only child is still drawn.
C6_DrawnOnce ==
    Rendered =>
        \A s \in PlacedNames, t \in PlacedNames, r \in RenderRelationships :
            Cardinality(Instances(s, t, r)) =
                Cardinality(ConnLines(s, t, r))
                + (IF r = "inheritance" THEN Cardinality(Branches(s, t)) ELSE 0)

\* C7: tree or single connector is decided by the number of distinct children
\* of a parent: exactly one distinct child gives a single triangle-terminated
\* connector and no tree, even if the connection is listed more than once, and
\* a merged tree has exactly one branch per distinct child.
C7_DistinctChildren ==
    Rendered =>
        \A p \in PlacedNames :
            LET d == Cardinality(Children(p))
            IN  /\ (d = 1) =>
                      /\ \A part \in {"triangle", "trunk", "bar", "branch"} :
                            TreeCmds(p, part) = {}
                      /\ \A s \in Children(p) : OrdinaryInheritance(s, p)
                /\ (d >= 2) => Cardinality(TreeCmds(p, "branch")) = d

----------------------------------------------------------------------------
(* Claims about the geometry of trees and connectors (SpecGeo) *)

\* C8: in a merged tree the parent's point is the top-centre of the parent
\* box, each child's point the bottom-centre of its box, and the bar's y is
\* the floor midpoint between the parent point's y and the y of the child
\* point nearest to the parent point, for every arrangement of the children.
C8_BarMidway ==
    Rendered =>
        \A p \in PlacedNames :
            (TreeCmds(p, "bar") # {}) =>
                LET py == TopCentreOf(p)[2]
                    dist(s) == Abs(BottomCentreOf(s)[2] - py)
                    nearest == {s \in Children(p) : \A c \in Children(p) : dist(s) <= dist(c)}
                IN  /\ \A j \in TreeCmds(p, "triangle") : canvas[j].to = TopCentreOf(p)
                    /\ \A s \in Children(p) : \A j \in Branches(s, p) :
                          canvas[j].to = BottomCentreOf(s)
                    /\ \A j \in TreeCmds(p, "bar") :
                          /\ canvas[j].from[2] = canvas[j].to[2]
                          /\ \E s \in nearest :
                                canvas[j].from[2] = (py + BottomCentreOf(s)[2]) \div 2

\* C10: a connector between two boxes with coincident centres is a no-op:
\* neither a line nor a glyph is drawn for it (a zero-length segment is
\* counted as nothing drawn here).
C10_DegenerateNoOp ==
    Rendered =>
        \A j \in Cmds("connector") :
            (CentreOf(canvas[j].owner.source) = CentreOf(canvas[j].owner.target)) =>
                (canvas[j].kind = "line" /\ canvas[j].from = canvas[j].to)

----------------------------------------------------------------------------
(* Claims about dangling connections (SpecDangling) *)

IsDangling(c) == c.targetClass = <<>> \/ c.targetClass \notin PlacedNames

\* the class list with every dangling connection removed
WithoutDangling ==
    [i \in 1..Len(classes_data) |->
        [classes_data[i] EXCEPT !.connections = SelectSeq(@, LAMBDA c : ~IsDangling(c))]]

\* C11: a connection whose targetClass is missing, empty or not the name of a
\* class of the diagram produces no drawn element and no error, counts for no
\* parent, and the other connections are grouped and drawn exactly as if it
\* were absent: the canvas equals that of the class list without it.
C11_DanglingSkipped ==
    Rendered =>
        /\ \A j \in 1..Len(canvas) :
              canvas[j].part # "box" => canvas[j].owner.target \in PlacedNames
        /\ \A p \in PlacedNames :
              Cardinality(TreeCmds(p, "branch")) \in {0, Cardinality(Inheriting(p))}
        /\ pc = "rendered_full" =>
              canvas = generate_full_diagram(WithoutDangling, styling_options, font).canvas
        /\ pc = "rendered_simple" =>
              canvas = generate_simple_diagram(WithoutDangling, styling_options, font).canvas

\* a class lists an inheritance without target before one to a parent that
\* gets a merged tree
C11_Witness ==
    /\ Rendered
    /\ Cmds("bar") # {}
    /\ \E i \in 1..Len(classes_data) :
          /\ Len(classes_data[i].connections) = 2
          /\ classes_data[i].connections[1] =
                [targetClass |-> <<>>, relationship |-> "inheritance"]
          /\ ~IsDangling(classes_data[i].connections[2])

----------------------------------------------------------------------------
(* Claims about successive renders (SpecNotes) *)

\* C12: a render called with an empty class list signals the caller (it
\* returns no diagram) before any layout work: no canvas is produced, no box
\* is laid out and the placed-note list is left exactly as it was.
C12_EmptyInput ==
    [][(pc = "editing" /\ pc' # "editing" /\ classes_data = <<>>) =>
          /\ pc' = "no_diagram"
          /\ canvas' = <<>> /\ class_positions' = <<>> /\ class_boxes' = <<>>
          /\ _existing_notes' = _existing_notes]_vars

\* an empty request answered while the list holds the notes of an earlier one
C12_Witness ==
    /\ pc = "no_diagram"
    /\ classes_data = <<>>
    /\ canvas = <<>>
    /\ _existing_notes # <<>>

----------------------------------------------------------------------------
(* Claims about box positions (SpecLayout) *)

CanvasWidth ==
    IF styling_options.given THEN styling_options.image_width
    ELSE IF pc = "rendered_full" THEN FULL_DEFAULT_WIDTH ELSE SIMPLE_DEFAULT_WIDTH
CanvasHeight ==
    IF styling_options.given THEN styling_options.image_height
    ELSE IF pc = "rendered_full" THEN FULL_DEFAULT_HEIGHT ELSE SIMPLE_DEFAULT_HEIGHT

\* position and size of the i-th class of the list in the last render
BoxX(i) == class_positions[classes_data[i].id][1]
BoxY(i) == class_positions[classes_data[i].id][2]
BoxW(i) == class_boxes[classes_data[i].id][1]
BoxH(i) == class_boxes[classes_data[i].id][2]

\* C13: every box that fits the canvas (width <= canvas width and height <=
\* canvas height) ends at a position with 0 <= x, 0 <= y, x + width <= canvas
\* width and y + height <= canvas height.
C13_InsideCanvas ==
    Rendered =>
        \A i \in 1..Len(classes_data) :
            (BoxW(i) <= CanvasWidth /\ BoxH(i) <= CanvasHeight) =>
                /\ 0 <= BoxX(i) /\ 0 <= BoxY(i)
                /\ BoxX(i) + BoxW(i) <= CanvasWidth
                /\ BoxY(i) + BoxH(i) <= CanvasHeight

\* the simple layout: T, the top of the first box, and the place of the i-th
\* box before the bounds clamp
StackHeight ==
    SeqSum([i \in 1..Len(classes_data) |-> BoxH(i)])
    + (60 * (Len(classes_data) - 1))
FirstTop == Max2(40, (CanvasHeight - StackHeight) \div 2)
ColumnX(i) == (CanvasWidth - BoxW(i)) \div 2
ColumnTop(i) == IF i = 1 THEN FirstTop ELSE BoxY(i - 1) + BoxH(i - 1) + 60
ClampKeepsX(i) == 20 <= ColumnX(i) /\ ColumnX(i) <= CanvasWidth - BoxW(i) - 20
ClampKeepsY(i) == 20 <= ColumnTop(i) /\ ColumnTop(i) <= CanvasHeight - BoxH(i) - 20
InColumn(i) == BoxX(i) = ColumnX(i) /\ BoxY(i) = ColumnTop(i)
Boxes == 1..Len(classes_data)
CentredStack ==
    Abs(FirstTop - (CanvasHeight - FirstTop - StackHeight)) <= 1

\* C14: in generate_simple_diagram, whenever no box is moved by
\* the bounds clamp, the first top is max(40, (H - T)//2), every later top is
\* the previous bottom + 60 and every x is (W - w)//2; and when T + 80 <= H no
\* box is moved by the clamp and the space above and below the stack differ
\* by at most 1.
C14_SimpleColumn ==
    pc = "rendered_simple" =>
        /\ (\A i \in Boxes : ClampKeepsX(i) /\ ClampKeepsY(i)) => \A i \in Boxes : InColumn(i)
        /\ (StackHeight + 80 <= CanvasHeight) =>
              (CentredStack /\ \A i \in Boxes : InColumn(i))

----------------------------------------------------------------------------
(* Claims about note placement (SpecNote) *)

CallMade == note_call # NoNoteCall
ImageWidth == styling_options.image_width
ImageHeight == styling_options.image_height
Sides == {"right", "left", "bottom", "top"}

\* rectangles are <<x, y, w, h>>; rectangles that only touch do not overlap
InsideImage(r) ==
    /\ r[1] >= 0 /\ r[2] >= 0
    /\ r[1] + r[3] <= ImageWidth
    /\ r[2] + r[4] <= ImageHeight
Apart(r, e) ==
    \/ r[1] + r[3] <= e[1] \/ e[1] + e[3] <= r[1]
    \/ r[2] + r[4] <= e[2] \/ e[2] + e[4] <= r[2]
ClearOf(r, placed) == \A i \in 1..Len(placed) : Apart(r, placed[i])
Acceptable(r, placed) == InsideImage(r) /\ ClearOf(r, placed)

\* the rectangle of the last call's note on a side of its class box, and the
\* same rectangle moved down by dy
SideRect(side) ==
    LET p == SidePosition(side, note_call.class_position, note_call.class_size,
                          <<note_rect[3], note_rect[4]>>, NOTE_OFFSET)
    IN  <<p[1], p[2], note_rect[3], note_rect[4]>>
Shifted(r, dy) == <<r[1], r[2] + dy, r[3], r[4]>>
RightDefault ==
    <<note_call.class_position[1] + note_call.class_size[1] + NOTE_OFFSET,
      note_call.class_position[2] + ((note_call.class_size[2] - note_rect[4]) \div 2),
      note_rect[3], note_rect[4]>>

\* C15: within one render (every note() call of a render avoids collisions),
\* whenever at least one of the four side positions lies fully inside the
\* canvas and overlaps no previously placed note, note() returns a rectangle
\* fully inside the canvas that overlaps no previously placed note.
C15_AcceptableSideFound ==
    (CallMade /\ note_call.avoid_collisions) =>
        ((\E side \in Sides : Acceptable(SideRect(side), note_call.placed)) =>
            Acceptable(note_rect, note_call.placed))

\* the preferred side was taken by an earlier note and another place was found
C15_Witness ==
    /\ CallMade /\ note_call.avoid_collisions
    /\ note_call.note_position = "right"
    /\ InsideImage(SideRect("right"))
    /\ ~ClearOf(SideRect("right"), note_call.placed)
    /\ note_rect # SideRect("right")
    /\ Acceptable(note_rect, note_call.placed)

\* the first index of the candidate sides whose un-jittered position is
\* acceptable; 0 if there is none
RECURSIVE FirstAcceptable(_, _)
FirstAcceptable(candidates, k) ==
    IF k > Len(candidates) THEN 0
    ELSE IF Acceptable(SideRect(candidates[k]), note_call.placed) THEN k
    ELSE FirstAcceptable(candidates, k + 1)

PreferredFirst(note_position) ==
    IF note_position = "auto" THEN <<"right", "left", "bottom", "top">>
    ELSE IF note_position = "right" THEN <<"right", "left", "bottom", "top">>
    ELSE IF note_position = "left" THEN <<"left", "right", "bottom", "top">>
    ELSE IF note_position = "bottom" THEN <<"bottom", "right", "left", "top">>
    ELSE <<"top", "right", "left", "bottom">>

\* C16: note() tries the sides in the order preferred side, then the
\* remaining of right, left, bottom, top, each at most once, and tries the
\* vertical jitter offsets only after the un-jittered positions of all sides
\* were rejected: if the un-jittered position of some side is acceptable, the
\* returned rectangle is the un-jittered position of the first such side.
C16_SidesBeforeJitter ==
    (CallMade /\ note_call.avoid_collisions) =>
        LET candidates == PreferredFirst(note_call.note_position)
            k == FirstAcceptable(candidates, 1)
        IN  /\ PositionsToTry(note_call.note_position) = candidates
            /\ k # 0 => note_rect = SideRect(candidates[k])

\* a side, un-jittered and at every jitter offset, was rejected by a call
\* that avoids collisions
SideRejected(side, placed) ==
    \/ ~InsideImage(SideRect(side))
    \/ /\ ~ClearOf(SideRect(side), placed)
       /\ \A j \in 1..Len(JitterOffsets) :
             LET q == Shifted(SideRect(side), JitterOffsets[j])
             IN  \/ q[2] < 0 \/ q[2] + q[4] > ImageHeight
                 \/ ~ClearOf(q, placed)

\* C17 as claimed: the rectangle returned by note() is either fully inside
\* the canvas and overlapping no previously placed note, or exactly the
\* right-side default position; the default is returned colliding or leaving
\* the canvas only when every side and every jitter offset was rejected, and
\* a rectangle is returned then too.
C17_Original ==
    CallMade =>
        /\ Acceptable(note_rect, note_call.placed) \/ note_rect = RightDefault
        /\ ~Acceptable(note_rect, note_call.placed) =>
              \A side \in Sides : SideRejected(side, note_call.placed)
        /\ Len(note_rect) = 4

\* C17 amended: as claimed for a call that avoids collisions; a call with
\* avoid_collisions = False returns a rectangle fully inside the canvas, which
\* may overlap placed notes, or the right-side default when no side position
\* is inside the canvas.
C17_Amended ==
    CallMade =>
        /\ note_call.avoid_collisions =>
              /\ Acceptable(note_rect, note_call.placed) \/ note_rect = RightDefault
              /\ ~Acceptable(note_rect, note_call.placed) =>
                    \A side \in Sides : SideRejected(side, note_call.placed)
        /\ ~note_call.avoid_collisions =>
              /\ InsideImage(note_rect) \/ note_rect = RightDefault
              /\ ~InsideImage(note_rect) => \A side \in Sides : ~InsideImage(SideRect(side))
        /\ Len(note_rect) = 4

\* the right-side default is returned although it leaves the canvas
C17_Witness ==
    /\ CallMade /\ note_call.avoid_collisions
    /\ note_call.note_position = "left"
    /\ note_rect = RightDefault
    /\ ~InsideImage(note_rect)

\* C18: clear_notes() empties the placed-note list; a collision-avoiding
\* note() call appends exactly the rectangle it returns and leaves the
\* earlier entries as they were; a note() call with avoid_collisions = False
\* leaves the list unchanged and returns what it returns on an empty list.
C18_PlacedList ==
    [][IF canvas' # canvas
       THEN IF note_call'.avoid_collisions
            THEN _existing_notes' = Append(_existing_notes, note_rect')
            ELSE /\ _existing_notes' = _existing_notes
                 /\ note_rect' = note(<<>>, ImageWidth, ImageHeight, note_call'.note_text,
                                      note_call'.class_position, note_call'.class_size,
                                      font, note_call'.note_position, NOTE_OFFSET,
                                      FALSE).rect
       ELSE _existing_notes' = <<>>]_vars

\* a call without collision avoidance put its note over a placed one and the
\* list kept its single entry
C18_Witness ==
    /\ CallMade /\ ~note_call.avoid_collisions
    /\ Len(_existing_notes) = 1
    /\ _existing_notes = note_call.placed
    /\ ~ClearOf(note_rect, _existing_notes)
    /\ NotesDrawn = 2

----------------------------------------------------------------------------
(* Claims about successive renders (SpecNotes) *)

\* the note rectangles drawn on the canvas, in drawing order
NoteRectsDrawn ==
    LET drawn == SelectSeq(canvas, LAMBDA c : c.part = "note")
    IN  [i \in 1..Len(drawn) |->
            <<drawn[i].from[1], drawn[i].from[2],
              drawn[i].to[1] - drawn[i].from[1], drawn[i].to[2] - drawn[i].from[2]>>]

\* C19: a render's box geometry and note rectangles depend on the class list
\* and the styling only, whatever was rendered before: they are those of a
\* render that starts with an empty placed-note list and no box positions, so
\* rendering the same input again gives the same geometry and the same notes.
C19_NoCarryOver ==
    /\ pc = "rendered_full" =>
          LET same(fresh) ==
                  /\ _existing_notes = fresh.existing_notes
                  /\ NoteRectsDrawn = fresh.existing_notes
          IN  /\ same(FullBoxesAndNotes(classes_data, ClassBoxes(classes_data, font), 1,
                                        <<>>, CanvasWidth, CanvasHeight, font))
              /\ \A i \in Boxes :
                    /\ <<BoxW(i), BoxH(i)>> = create_class_box(classes_data[i], font)
                    /\ <<BoxX(i), BoxY(i)>> =
                          FullPosition(i, <<BoxW(i), BoxH(i)>>, CanvasWidth, CanvasHeight)
              /\ DOMAIN class_positions = {classes_data[i].id : i \in Boxes}
    /\ pc = "rendered_simple" =>
          /\ _existing_notes = <<>>
          /\ NoteRectsDrawn = <<>>
          /\ \A i \in Boxes :
                /\ <<BoxW(i), BoxH(i)>> = create_class_box(classes_data[i], font)
                /\ BoxX(i) = Max2(20, Min2(ColumnX(i), CanvasWidth - BoxW(i) - 20))
                /\ BoxY(i) = Max2(20, Min2(ColumnTop(i), CanvasHeight - BoxH(i) - 20))
          /\ DOMAIN class_positions = {classes_data[i].id : i \in Boxes}

\* two notes of one class placed by a full render, the second moved down
C19_Witness ==
    /\ pc = "rendered_full"
    /\ Len(_existing_notes) = 2
    /\ _existing_notes[1][1] = _existing_notes[2][1]
    /\ _existing_notes[2][2] = _existing_notes[1][2] + 40
    /\ NoteRectsDrawn = _existing_notes

----------------------------------------------------------------------------
(* Claims about concurrent renders (SpecConcurrent) *)

\* the note rectangles of a render of these classes that runs alone
AloneNotes(classes) ==
    FullBoxesAndNotes(classes, ClassBoxes(classes, font), 1, <<>>,
                      FULL_DEFAULT_WIDTH, FULL_DEFAULT_HEIGHT, font).existing_notes

\* C20: when two renders interleave, the rectangles returned to each render
\* and the placed-note list it ends with are exactly those of the same render
\* running alone.
C20_Isolated ==
    \A t \in DOMAIN threads :
        threads[t].state = "done" =>
            /\ threads[t].rects = AloneNotes(threads[t].classes)
            /\ threads[t].list = AloneNotes(threads[t].classes)

----------------------------------------------------------------------------
(* Claims about overlapping boxes (SpecLayout) *)

\* the final rectangles of the i-th and the j-th box share interior points
BoxesOverlap(i, j) ==
    /\ BoxX(i) < BoxX(j) + BoxW(j) /\ BoxX(j) < BoxX(i) + BoxW(i)
    /\ BoxY(i) < BoxY(j) + BoxH(j) /\ BoxY(j) < BoxY(i) + BoxH(i)
NoOverlap == \A i \in Boxes : \A j \in Boxes : i # j => ~BoxesOverlap(i, j)
SumOfHeights == SeqSum([i \in 1..Len(classes_data) |-> BoxH(i)])

\* C21: in generate_simple_diagram, whenever (sum of box heights) + 60*(n-1)
\* <= canvas height, no two final box rectangles overlap, also when the clamp
\* moved the last box upward.
C21_SimpleNoOverlap ==
    (pc = "rendered_simple" /\ StackHeight <= CanvasHeight) => NoOverlap

\* the stack just fits: the clamp moved the last box up by the whole gap and
\* it touches the box above
C21_Witness ==
    /\ pc = "rendered_simple"
    /\ Len(classes_data) = 2
    /\ StackHeight <= CanvasHeight
    /\ StackHeight = CanvasHeight
    /\ BoxY(2) = BoxY(1) + BoxH(1)

\* C22: in generate_full_diagram, whenever the sum of all box heights does
\* not exceed the canvas height, the final box rectangles are pairwise
\* non-overlapping.
C22_FullNoOverlap ==
    (pc = "rendered_full" /\ SumOfHeights <= CanvasHeight) => NoOverlap

----------------------------------------------------------------------------
(* Claims about the figure of a merged generalization tree (SpecRender) *)

ChildXs(p) == {BottomCentreOf(s)[1] : s \in Children(p)}

\* C23: the segments of a merged tree form one connected figure: the trunk
\* runs at the parent point's x from the triangle base (parent y + 12) to the
\* bar's y, the bar spans from the leftmost to the rightmost child x at that
\* y, the parent point's x lies within the bar's span, and every child's
\* branch runs from the bar to that child's point.
C23_TreeConnected ==
    Rendered =>
        \A p \in PlacedNames :
            \A b \in TreeCmds(p, "bar") :
                LET bar_y == canvas[b].from[2]
                    parent_x == TopCentreOf(p)[1]
                    parent_y == TopCentreOf(p)[2]
                IN  /\ canvas[b].to[2] = bar_y
                    /\ \A x \in ChildXs(p) : canvas[b].from[1] <= x /\ x <= canvas[b].to[1]
                    /\ canvas[b].from[1] \in ChildXs(p) /\ canvas[b].to[1] \in ChildXs(p)
                    /\ \A j \in TreeCmds(p, "trunk") :
                          /\ canvas[j].from = <<parent_x, parent_y + 12>>
                          /\ canvas[j].to = <<parent_x, bar_y>>
                    /\ canvas[b].from[1] <= parent_x /\ parent_x <= canvas[b].to[1]
                    /\ \A s \in Children(p) : \A j \in Branches(s, p) :
                          /\ canvas[j].from = <<BottomCentreOf(s)[1], bar_y>>
                          /\ canvas[j].to = BottomCentreOf(s)

----------------------------------------------------------------------------
(* Claims about glyphs and boxes (SpecNear, SpecDraw, SpecRender) *)

RectsOverlapping(r, q) ==
    /\ r[1] < q[1] + q[3] /\ q[1] < r[1] + r[3]
    /\ r[2] < q[2] + q[4] /\ q[2] < r[2] + r[4]

Sign(v) == IF v > 0 THEN 1 ELSE IF v < 0 THEN -1 ELSE 0

\* the axis of a glyph runs from its tip "reach" pixels back toward the start
\* point; its far end, for a vertical or horizontal connector (the tip itself
\* for a slanted one)
AxisEnd(c) ==
    IF c.from[1] = c.to[1] THEN <<c.to[1], c.to[2] + (Sign(c.from[2] - c.to[2]) * c.reach)>>
    ELSE IF c.from[2] = c.to[2] THEN <<c.to[1] + (Sign(c.from[1] - c.to[1]) * c.reach), c.to[2]>>
    ELSE c.to

\* some point of the glyph's axis lies strictly inside the rectangle
AxisInside(c, r) ==
    LET e == AxisEnd(c)
    IN  /\ Min2(c.to[1], e[1]) < r[1] + r[3] /\ Max2(c.to[1], e[1]) > r[1]
        /\ Min2(c.to[2], e[2]) < r[2] + r[4] /\ Max2(c.to[2], e[2]) > r[2]
        /\ (c.to[1] = e[1]) => (r[1] < e[1] /\ e[1] < r[1] + r[3])
        /\ (c.to[2] = e[2]) => (r[2] < e[2] /\ e[2] < r[2] + r[4])

\* C24: for two classes whose box rectangles do not overlap, the terminal
\* glyph of a connector between them lies entirely outside both rectangles;
\* checked on the glyph's axis: no point between the tip and the glyph's far
\* end is strictly inside the source's or the target's rectangle.
C24_GlyphOutsideBoxes ==
    Rendered =>
        \A j \in Cmds("connector") :
            (/\ canvas[j].kind # "line"
             /\ ~RectsOverlapping(RectOf(canvas[j].owner.source), RectOf(canvas[j].owner.target))) =>
                /\ ~AxisInside(canvas[j], RectOf(canvas[j].owner.source))
                /\ ~AxisInside(canvas[j], RectOf(canvas[j].owner.target))

\* C25: the connection-point clearance of 15px is the maximum size of any
\* symbol drawn by drawConnection: for every relationship type, every vertex
\* of the terminal glyph lies at most 15px behind the glyph's tip, measured
\* along the connector.
C25_GlyphWithinClearance ==
    \A j \in 1..Len(canvas) :
        (pc = "drawn" /\ canvas[j].kind # "line") => canvas[j].reach <= ARROW_OFFSET

\* C26: the triangle of a merged generalization tree has its tip on the
\* parent's edge at the parent's attachment point and the rest of it, down to
\* its base, outside the parent's rectangle.
C26_TriangleOutsideParent ==
    Rendered =>
        \A p \in PlacedNames : \A j \in TreeCmds(p, "triangle") :
            /\ canvas[j].to = TopCentreOf(p)
            /\ ~AxisInside(canvas[j], RectOf(p))

----------------------------------------------------------------------------
(* Claims about the ConnectionManager (SpecManager) *)

Registered(class_name) == class_name \in DOMAIN manager.class_positions
Stored == 1..Len(manager.connections)
ConnectionArguments ==
    {UMLConnection(id, f, t) : id \in ConnectionIds, f \in ManagerNames \cup {Dangling},
                               t \in ManagerNames \cup {Dangling}}

\* the step appends one connection, that of the argument c with both points set
AppendsOnly(c) ==
    /\ manager'.class_positions = manager.class_positions
    /\ Len(manager'.connections) = Len(manager.connections) + 1
    /\ SubSeq(manager'.connections, 1, Len(manager.connections)) = manager.connections
    /\ LET stored == manager'.connections[Len(manager'.connections)]
       IN  /\ stored.id = c.id
           /\ stored.from_class = c.from_class /\ stored.to_class = c.to_class
           /\ stored.start_point # NoPoint /\ stored.end_point # NoPoint

\* C27: add_connection returns False and leaves the connection list and the
\* class-position map unchanged when from_class or to_class is not
\* registered; otherwise it appends exactly that connection with start_point
\* and end_point set and returns True.  So every stored connection refers to
\* two registered classes and has both points.
C27_AddConnection ==
    /\ [](\A i \in Stored :
             /\ Registered(manager.connections[i].from_class)
             /\ Registered(manager.connections[i].to_class)
             /\ manager.connections[i].start_point # NoPoint
             /\ manager.connections[i].end_point # NoPoint)
    /\ [][\A c \in ConnectionArguments :
             ManagerAddConnection(c) =>
                 IF Registered(c.from_class) /\ Registered(c.to_class)
                 THEN returned' = "True" /\ AppendsOnly(c)
                 ELSE returned' = "False" /\ manager' = manager]_vars

\* a connection was stored and a later one, to an unregistered class, refused
C27_Witness ==
    /\ returned = "False"
    /\ Len(manager.connections) = 1
    /\ manager.connections[1].from_class # manager.connections[1].to_class
    /\ manager.connections[1].start_point.side = "right"

CentreOfRect(r) == <<r[1] + (r[3] \div 2), r[2] + (r[4] \div 2)>>
OppositeSides == {<<"right", "left">>, <<"left", "right">>, <<"bottom", "top">>, <<"top", "bottom">>}

\* C28: for two boxes whose centres differ, the two end points of a connector
\* between them are attached to opposite sides: (right, left), (left, right),
\* (bottom, top) or (top, bottom).
C28_OppositeSides ==
    [][\A c \in ConnectionArguments :
          (/\ ManagerAddConnection(c)
           /\ returned' = "True"
           /\ CentreOfRect(manager.class_positions[c.from_class])
                 # CentreOfRect(manager.class_positions[c.to_class])) =>
              LET stored == manager'.connections[Len(manager'.connections)]
              IN  <<stored.start_point.side, stored.end_point.side>> \in OppositeSides]_vars

\* one connector attached right to left, one attached top to bottom between
\* boxes whose centres are as far apart horizontally as vertically
C28_Witness ==
    /\ Len(manager.connections) = 2
    /\ manager.connections[1].start_point.side = "right"
    /\ manager.connections[1].end_point.side = "left"
    /\ manager.connections[2].start_point.side = "top"
    /\ manager.connections[2].end_point.side = "bottom"
    /\ manager.connections[2].start_point.x # manager.connections[2].end_point.x

\* C29: after any sequence of add_class_position, add_connection and
\* remove_connection calls, every stored connection's start_point and
\* end_point equal the points the best-connection-point rule computes from
\* the currently registered rectangles of its from_class and to_class.
C29_PointsCurrent ==
    \A i \in Stored :
        LET c == manager.connections[i]
            from_pos == manager.class_positions[c.from_class]
            to_pos == manager.class_positions[c.to_class]
        IN  /\ c.start_point = _get_best_connection_point(from_pos, CentreOfRect(to_pos)[1],
                                                          CentreOfRect(to_pos)[2])
            /\ c.end_point = _get_best_connection_point(to_pos, CentreOfRect(from_pos)[1],
                                                        CentreOfRect(from_pos)[2])

\* the rectangle of the class box the last note() call annotates
AnnotatedRect ==
    <<note_call.class_position[1], note_call.class_position[2],
      note_call.class_size[1], note_call.class_size[2]>>

\* C30: the note rectangle returned by note() never overlaps the rectangle of
\* the class box it annotates, whichever side and vertical offset was
\* accepted and also when the right-side fallback is used.
C30_NoteOutsideClass ==
    CallMade => ~RectsOverlapping(note_rect, AnnotatedRect)

====
